---- MODULE Spec2Model ----
(***************************************************************************)
(* SES-forwarder: the address-mapping lookup (mappingUtils.ts), the S3     *)
(* e-mail parser parseS3Email and the raw forwarding builder               *)
(* formatRawForwardedEmail (emailUtils.ts).                                *)
(*                                                                         *)
(* Strings.  An address or a mapping key is a sequence of tokens: the      *)
(* separator characters "@", "." and "*" are tokens of their own, every    *)
(* other token is a run of ordinary characters (a label).  split, join and *)
(* includes are computed on these sequences.  An e-mail is a sequence of   *)
(* lines (the text between two line breaks); a line is a record that       *)
(* carries what the regular expressions of the source look at.             *)
(*                                                                         *)
(* JavaScript values are records with a tag t: "undef", "str", "arr".      *)
(***************************************************************************)
EXTENDS Integers, Sequences, FiniteSets, TLC

VARIABLES pc, fn, args, ret

vars == <<pc, fn, args, ret>>

\* ------------------------------------------------------------------ bounds

\* Longest destination list of a mapping entry.
MaxDests == 2

\* Most entries of a mapping.
MaxEntries == 3

\* Longest list of key parts handed to parseS3Email.
MaxKeyParts == 3

\* Deepest nesting of multipart containers in a message handed to the parser.
MaxNesting == 3

\* Most loop iterations that a walk over the parts of a message may take.
MaxWork == 24

\* Readings that the clock can show while a message is parsed twice.
MaxTicks == 2

\* Most recipients of a message that the handler forwards.
MaxRecipients == 2

\* Longest encoded text that the decoding run is given.
MaxEncoded == 4

\* ------------------------------------------------------- JavaScript values

Undefined == [t |-> "undef"]

Str(s) == [t |-> "str", s |-> s]

Arr(a) == [t |-> "arr", a |-> a]

\* Array.isArray(v)
IsArray(v) == v.t = "arr"

\* JavaScript truthiness of undefined, a string and an array: only undefined
\* and the empty string are falsy (an empty array is truthy).
Truthy(v) ==
  CASE v.t = "undef" -> FALSE
    [] v.t = "str" -> v.s # <<>>
    [] OTHER -> TRUE

\* a[i] of a JavaScript array, 0-based: undefined past the end.
ArrAt(a, i) == IF i + 1 <= Len(a) THEN Str(a[i + 1]) ELSE Undefined

\* ------------------------------------------------------------ token strings

RECURSIVE SplitFrom(_, _, _, _)
\* The pieces of s[i..] between occurrences of the token sep; cur is the
\* piece being collected.
SplitFrom(s, sep, i, cur) ==
  IF i > Len(s) THEN <<cur>>
  ELSE IF s[i] = sep THEN <<cur>> \o SplitFrom(s, sep, i + 1, <<>>)
  ELSE SplitFrom(s, sep, i + 1, Append(cur, s[i]))

\* String.prototype.split(sep) for a one-character separator.
Split(s, sep) == SplitFrom(s, sep, 1, <<>>)

RECURSIVE Join(_, _)
\* Array.prototype.join(sep)
Join(parts, sep) ==
  IF Len(parts) = 0 THEN <<>>
  ELSE IF Len(parts) = 1 THEN parts[1]
  ELSE parts[1] \o <<sep>> \o Join(Tail(parts), sep)

\* String.prototype.includes(c) for a one-character c.
Includes(s, c) == \E i \in 1..Len(s) : s[i] = c

\* Array.prototype.slice(-2)
SliceLast2(parts) ==
  IF Len(parts) <= 2 THEN parts ELSE SubSeq(parts, Len(parts) - 1, Len(parts))

\* ------------------------------------------------------------ e-mail text
\* A line of an e-mail: k is its shape, n the header name as written (for a
\* header line "Name: value"), v its text as a token string (for a header
\* line the value after "Name:" and the white space that follows).
\*   "hdr"    Name: value
\*   "cont"   a line that starts with white space (a folded continuation)
\*   "blank"  the empty line
\*   "text"   any other line without a colon
\*   "delim"  --<boundary> (n = "open") or --<boundary>-- (n = "close")
Hdr(name, value) == [k |-> "hdr", n |-> name, v |-> value]

Cont(value) == [k |-> "cont", n |-> "", v |-> value]

Blank == [k |-> "blank", n |-> "", v |-> <<>>]

Text(value) == [k |-> "text", n |-> "", v |-> value]

Delim(boundary) == [k |-> "delim", n |-> "open", v |-> boundary]

DelimClose(boundary) == [k |-> "delim", n |-> "close", v |-> boundary]

\* White-space tokens (\s).
IsSpace(tok) == tok \in {" ", "\n", "\r", "\t"}

RECURSIVE TrimLeft(_)
TrimLeft(s) == IF s # <<>> /\ IsSpace(Head(s)) THEN TrimLeft(Tail(s)) ELSE s

RECURSIVE TrimRight(_)
TrimRight(s) ==
  IF s # <<>> /\ IsSpace(s[Len(s)]) THEN TrimRight(SubSeq(s, 1, Len(s) - 1)) ELSE s

\* String.prototype.trim()
Trim(s) == TrimRight(TrimLeft(s))

\* ------------------------------------------------ text of lines, matching

\* toLowerCase(), token by token.
LowerTable ==
  [x \in {"From", "FROM", "Subject", "SUBJECT", "To", "TO", "Date", "DATE",
          "Reply-To", "Content-Type", "CONTENT-TYPE", "Content-Transfer-Encoding",
          "Content-Disposition", "TEXT", "PLAIN", "HTML", "Quoted-Printable",
          "BASE64", "Attachment"} |->
     CASE x \in {"From", "FROM"} -> "from"
       [] x \in {"Subject", "SUBJECT"} -> "subject"
       [] x \in {"To", "TO"} -> "to"
       [] x \in {"Date", "DATE"} -> "date"
       [] x = "Reply-To" -> "reply-to"
       [] x \in {"Content-Type", "CONTENT-TYPE"} -> "content-type"
       [] x = "Content-Transfer-Encoding" -> "content-transfer-encoding"
       [] x = "Content-Disposition" -> "content-disposition"
       [] x = "TEXT" -> "text"
       [] x = "PLAIN" -> "plain"
       [] x = "HTML" -> "html"
       [] x = "Quoted-Printable" -> "quoted-printable"
       [] x = "BASE64" -> "base64"
       [] OTHER -> "attachment"]

LowerTok(x) == IF x \in DOMAIN LowerTable THEN LowerTable[x] ELSE x

Lower(s) == [i \in 1..Len(s) |-> LowerTok(s[i])]

\* The characters of a line.
LineText(line) ==
  CASE line.k = "hdr" -> <<line.n, ":", " ">> \o line.v
    [] line.k = "cont" -> <<" ">> \o line.v
    [] line.k = "delim" -> <<"--">> \o line.v \o (IF line.n = "close" THEN <<"--">> ELSE <<>>)
    [] OTHER -> line.v

\* The lines joined by line breaks.
Flatten(lines) == Join([i \in 1..Len(lines) |-> LineText(lines[i])], "\n")

\* s.startsWith(p)
StartsWith(s, p) == Len(p) <= Len(s) /\ SubSeq(s, 1, Len(p)) = p

\* s.includes(p) for a string p.
IncludesStr(s, p) ==
  \E i \in 1..(Len(s) - Len(p) + 1) : SubSeq(s, i, i + Len(p) - 1) = p

\* The index of the first line that shows the header name (a match of
\* /Name:/i anywhere in the text), 0 when there is none.
FirstHeaderLine(lines, lname) ==
  LET hits == {i \in 1..Len(lines) : lines[i].k = "hdr" /\ LowerTok(lines[i].n) = lname}
  IN IF hits = {} THEN 0 ELSE CHOOSE i \in hits : \A j \in hits : i <= j

\* [^;\r\n]+ at the start of a header value: the text before the first ";".
BeforeSemicolon(v) ==
  IF \E i \in 1..Len(v) : v[i] = ";"
  THEN SubSeq(v, 1, (CHOOSE i \in 1..Len(v) : v[i] = ";" /\ \A j \in 1..(i - 1) : v[j] # ";") - 1)
  ELSE v

\* The text of a header value from its first ";" on, <<>> when it has none.
FromSemicolon(v) ==
  IF \E i \in 1..Len(v) : v[i] = ";"
  THEN SubSeq(v, CHOOSE i \in 1..Len(v) : v[i] = ";" /\ \A j \in 1..(i - 1) : v[j] # ";", Len(v))
  ELSE <<>>

\* The starts of key"x" in a token string: the key (such as "boundary="),
\* a quote, at least one character other than a quote, a quote.
QuotedStarts(s, key) ==
  {i \in 1..(Len(s) - 3) :
     /\ LowerTok(s[i]) = key /\ s[i + 1] = "\"" /\ s[i + 2] # "\""
     /\ \E j \in (i + 3)..Len(s) : s[j] = "\""}

\* The x of the key"x" that starts at i.
QuotedAt(s, i) ==
  LET j == CHOOSE x \in (i + 3)..Len(s) :
             s[x] = "\"" /\ \A m \in (i + 2)..(x - 1) : s[m] # "\""
  IN SubSeq(s, i + 2, j - 1)

\* The starts of keyx in a token string, x a run of characters other than
\* white space and ";".
BareStarts(s, key) ==
  {i \in 1..(Len(s) - 1) :
     LowerTok(s[i]) = key /\ ~IsSpace(s[i + 1]) /\ s[i + 1] # ";"}

\* The x of the keyx that starts at i.
BareAt(s, i) ==
  LET j == CHOOSE x \in (i + 1)..Len(s) :
             /\ \A m \in (i + 1)..x : ~IsSpace(s[m]) /\ s[m] # ";"
             /\ (x = Len(s) \/ IsSpace(s[x + 1]) \/ s[x + 1] = ";")
  IN SubSeq(s, i + 1, j)

\* ------------------------------------------------------ transfer decoding

UpperHex == {"0", "1", "2", "3", "4", "5", "6", "7", "8", "9", "A", "B", "C", "D", "E", "F"}

\* String.fromCharCode(parseInt(hexChars, 16))
FromCharCode(h1, h2) ==
  CASE h1 = "3" /\ h2 = "D" -> "="
    [] h1 = "4" /\ h2 = "1" -> "A"
    [] h1 = "0" /\ h2 = "A" -> "\n"
    [] h1 = "2" /\ h2 = "0" -> " "
    [] OTHER -> "\\x" \o h1 \o h2

RECURSIVE ReplaceHexEscapes(_)
\* content.replace(/=([0-9A-F]{2})/g, ...)
ReplaceHexEscapes(s) ==
  IF s = <<>> THEN <<>>
  ELSE IF Len(s) >= 3 /\ s[1] = "=" /\ s[2] \in UpperHex /\ s[3] \in UpperHex
  THEN <<FromCharCode(s[2], s[3])>> \o ReplaceHexEscapes(SubSeq(s, 4, Len(s)))
  ELSE <<Head(s)>> \o ReplaceHexEscapes(Tail(s))

RECURSIVE RemoveAll(_, _)
\* s.replace(/p/g, '') for a literal p.
RemoveAll(s, p) ==
  IF s = <<>> THEN <<>>
  ELSE IF StartsWith(s, p) THEN RemoveAll(SubSeq(s, Len(p) + 1, Len(s)), p)
  ELSE <<Head(s)>> \o RemoveAll(Tail(s), p)

\* Lines 157-167 (and 13-23, 594-604).
decodeQuotedPrintable(content) ==
  RemoveAll(RemoveAll(ReplaceHexEscapes(content), <<"=", "\r", "\n">>), <<"=", "\n">>)

\* content.replace(/\s/g, '')
StripSpace(s) == SelectSeq(s, LAMBDA x : ~IsSpace(x))

\* Buffer.from(text, 'base64'): the bytes a base64 text stands for.  It
\* never throws: text that is no base64 gives whatever bytes its base64
\* characters decode to.
Base64Bytes(s) ==
  CASE s = <<"SGVsbG8">> -> <<"Hello">>
    [] s = <<"PGI+SGk8L2I+">> -> <<"<b>", "Hi", "</b>">>
    [] s = <<>> -> <<>>
    [] OTHER -> <<"\\xFFFD">>

\* Lines 170-174.
decodeBase64(content) == Base64Bytes(StripSpace(content))

\* ------------------------------------------- decodeQuotedPrintable: the run

\* The characters of the encoded texts: the escape character, hex digits in
\* both letter cases, a line break, and a character that is none of these.
EncodedChars == {"=", "3", "D", "d", "\n", "x"}

\* The encoded texts: every text of up to MaxEncoded characters.
EncodedTexts == UNION { [1..n -> EncodedChars] : n \in 0..MaxEncoded }

InitDecode ==
  /\ pc = "call"
  /\ fn = "decodeQuotedPrintable"
  /\ args \in [content : EncodedTexts]
  /\ ret = Undefined

\* Lines 13-23: the call returns the decoded text.
CallDecode ==
  /\ pc = "call"
  /\ fn = "decodeQuotedPrintable"
  /\ ret' = Str(decodeQuotedPrintable(args.content))
  /\ pc' = "done"
  /\ UNCHANGED <<fn, args>>

SpecDecode == InitDecode /\ [][CallDecode]_vars

\* ------------------------------------------ claims on decodeQuotedPrintable

\* A hex digit in either letter case.
IsHexDigit(tok) == tok \in UpperHex \cup {"a", "b", "c", "d", "e", "f"}

\* The hex digit in capitals.
UpperHexDigit(tok) ==
  CASE tok = "a" -> "A" [] tok = "b" -> "B" [] tok = "c" -> "C"
    [] tok = "d" -> "D" [] tok = "e" -> "E" [] tok = "f" -> "F"
    [] OTHER -> tok

RECURSIVE DecodedOnce(_)
\* The text decoded in one pass from left to right: an escape gives its
\* byte, a soft line break gives nothing, any other character gives
\* itself; what an escape gave is not looked at again.
DecodedOnce(s) ==
  IF s = <<>> THEN <<>>
  ELSE IF Len(s) >= 3 /\ s[1] = "=" /\ IsHexDigit(s[2]) /\ IsHexDigit(s[3])
  THEN <<FromCharCode(UpperHexDigit(s[2]), UpperHexDigit(s[3]))>>
       \o DecodedOnce(SubSeq(s, 4, Len(s)))
  ELSE IF Len(s) >= 3 /\ s[1] = "=" /\ s[2] = "\r" /\ s[3] = "\n"
  THEN DecodedOnce(SubSeq(s, 4, Len(s)))
  ELSE IF Len(s) >= 2 /\ s[1] = "=" /\ s[2] = "\n"
  THEN DecodedOnce(SubSeq(s, 3, Len(s)))
  ELSE <<Head(s)>> \o DecodedOnce(Tail(s))

\* C27: decodeQuotedPrintable gives the byte for every escape =XX of two hex
\* digits in either letter case, removes every soft line break, and leaves
\* every other character as it is; a "=" that an escape gave is data and
\* starts neither a soft line break nor another escape.
C27_DecodesInOnePass ==
  (fn = "decodeQuotedPrintable" /\ pc = "done") => ret.s = DecodedOnce(args.content)

\* --------------------------------------------- parseS3Email: header block

\* /^(.*?)\r?\n\r?\n/s: the index of the first empty line that has a line
\* before it and a line after it (two consecutive line breaks), 0 when the
\* text has none.
FirstBlankLine(raw) ==
  LET hits == {i \in 2..(Len(raw) - 1) : raw[i].k = "blank"}
  IN IF hits = {} THEN 0 ELSE CHOOSE i \in hits : \A j \in hits : i <= j

\* headerMatch && headerMatch[1]: the lines of the header text, <<>> when
\* there is no match or the matched text is empty.
HeaderLines(raw) ==
  LET b == FirstBlankLine(raw)
  IN IF b = 0 \/ (b = 2 /\ raw[1].k = "blank") THEN <<>> ELSE SubSeq(raw, 1, b - 1)

\* headers[currentHeader] = currentValue, when a header is in progress.
SaveHeader(st) ==
  IF st.currentHeader # ""
  THEN [x \in DOMAIN st.headers \cup {st.currentHeader} |->
          IF x = st.currentHeader THEN st.currentValue ELSE st.headers[x]]
  ELSE st.headers

\* One turn of the loop over headerLines (lines 86-103).
HeaderStep(st, line) ==
  IF line.k = "cont"
  THEN [st EXCEPT !.currentValue = st.currentValue \o <<" ">> \o Trim(line.v)]
  ELSE IF line.k = "hdr"
  THEN [headers |-> SaveHeader(st), currentHeader |-> line.n, currentValue |-> line.v]
  ELSE [st EXCEPT !.headers = SaveHeader(st)]

RECURSIVE HeaderLoop(_, _)
HeaderLoop(st, lines) ==
  IF lines = <<>> THEN st ELSE HeaderLoop(HeaderStep(st, Head(lines)), Tail(lines))

\* The headers object after lines 74-109.
ParseHeaders(raw) ==
  SaveHeader(HeaderLoop([headers |-> <<>>, currentHeader |-> "", currentValue |-> <<>>],
                        HeaderLines(raw)))

\* headers[name]
HeaderGet(headers, name) ==
  IF name \in DOMAIN headers THEN Str(headers[name]) ELSE Undefined

\* a || b
Or(a, b) == IF Truthy(a) THEN a ELSE b

DefaultFrom == <<"unknown", "@", "example", ".", "com">>

DefaultSubject == <<"No", " ", "Subject">>

\* headers['From'] || headers['from'] || 'unknown@example.com'
ParseFrom(headers) ==
  Or(Or(HeaderGet(headers, "From"), HeaderGet(headers, "from")), Str(DefaultFrom)).s

\* headers['Subject'] || headers['subject'] || 'No Subject'
ParseSubject(headers) ==
  Or(Or(HeaderGet(headers, "Subject"), HeaderGet(headers, "subject")),
     Str(DefaultSubject)).s

\* ---------------------------------------------- parseS3Email: recipients

\* addr.match(/<([^>]+)>/): the text between the first "<" that is followed
\* by at least one character other than ">" and then by ">".
AngleMatch(addr) ==
  LET opens == {i \in 1..Len(addr) :
                  /\ addr[i] = "<"
                  /\ \E j \in (i + 2)..Len(addr) :
                       /\ addr[j] = ">"
                       /\ \A m \in (i + 1)..(j - 1) : addr[m] # ">"}
  IN IF opens = {} THEN Undefined
     ELSE LET i == CHOOSE x \in opens : \A y \in opens : x <= y
              j == CHOOSE x \in (i + 2)..Len(addr) :
                     addr[x] = ">" /\ \A m \in (i + 1)..(x - 1) : addr[m] # ">"
          IN Str(SubSeq(addr, i + 1, j - 1))

\* addr.match(/([^\s]+@[^\s]+)/): the first run of non-space characters
\* that has an "@" with a character before and after it.
BareMatch(addr) ==
  LET RunStart(i) == CHOOSE a \in 1..i :
                       /\ \A m \in a..i : ~IsSpace(addr[m])
                       /\ \A b \in 1..(a - 1) : \E m \in b..i : IsSpace(addr[m])
      RunEnd(i)   == CHOOSE z \in i..Len(addr) :
                       /\ \A m \in i..z : ~IsSpace(addr[m])
                       /\ \A b \in (z + 1)..Len(addr) : \E m \in i..b : IsSpace(addr[m])
      ats == {i \in 2..(Len(addr) - 1) :
                addr[i] = "@" /\ ~IsSpace(addr[i - 1]) /\ ~IsSpace(addr[i + 1])}
  IN IF ats = {} THEN Undefined
     ELSE LET i == CHOOSE x \in ats : \A y \in ats : x <= y
          IN Str(SubSeq(addr, RunStart(i), RunEnd(i)))

\* One turn of toHeader.split(',').forEach (lines 120-128).
ParseAddress(addr) ==
  LET emailMatch == Or(AngleMatch(addr), BareMatch(addr))
  IN IF Truthy(emailMatch) THEN Trim(emailMatch.s) ELSE Trim(addr)

\* Lines 114-129.
ParseTo(headers) ==
  LET toHeader == Or(Or(HeaderGet(headers, "To"), HeaderGet(headers, "to")), Str(<<>>))
  IN IF Truthy(toHeader)
     THEN LET segs == Split(toHeader.s, ",")
          IN [i \in 1..Len(segs) |-> ParseAddress(segs[i])]
     ELSE <<>>

\* The outcome of a step: a value, or an exception thrown.
Ok(v) == [t |-> "ok", v |-> v]

Throw(e) == [t |-> "throw", v |-> e]

\* Lines 132-137 without the test keyParts.length >= 2.
KeyPartsFallback_NoLengthCheck(toAddresses, keyParts) ==
  IF Len(toAddresses) = 0 /\ keyParts.t # "undef"
  THEN LET potentialRecipient == ArrAt(keyParts.a, 1)
       IN IF potentialRecipient.t = "undef" THEN Throw("TypeError")
          ELSE IF Includes(potentialRecipient.s, "@")
          THEN Ok(Append(toAddresses, potentialRecipient.s))
          ELSE Ok(toAddresses)
  ELSE Ok(toAddresses)

\* Lines 132-137: the S3 key as the source of the recipient.  Reading a
\* property of undefined throws a TypeError.
KeyPartsFallback(toAddresses, keyParts) ==
  IF Len(toAddresses) = 0 /\ keyParts.t # "undef" /\ Len(keyParts.a) >= 2
  THEN LET potentialRecipient == ArrAt(keyParts.a, 1)
       IN IF potentialRecipient.t = "undef" THEN Throw("TypeError")
          ELSE IF Includes(potentialRecipient.s, "@")
          THEN Ok(Append(toAddresses, potentialRecipient.s))
          ELSE Ok(toAddresses)
  ELSE Ok(toAddresses)

\* ----------------------------------------------------- parseS3Email: date

\* The Date header values that Date can parse.
ParseableDates == { <<"Mon,", " ", "01", " ", "Jan", " ", "2023", " ", "12:00:00", " ", "+0000">> }

\* new Date(): the current time.
Now == [t |-> "date", time |-> <<"now">>]

\* new Date(s): the time s denotes, or the Invalid Date (time NaN) when s
\* does not parse; it never throws.
NewDate(s) ==
  IF s \in ParseableDates THEN [t |-> "date", time |-> s]
  ELSE [t |-> "date", time |-> <<"NaN">>]

\* Lines 140-147.  The try block cannot throw, so its catch never runs.
ParseDate(headers) ==
  LET h == Or(HeaderGet(headers, "Date"), HeaderGet(headers, "date"))
  IN IF Truthy(h)
     THEN NewDate(Or(Or(HeaderGet(headers, "Date"), HeaderGet(headers, "date")),
                     Str(<<>>)).s)
     ELSE Now

\* ----------------------------------------------------- parseS3Email: body

\* Whether the line holds the text `--${boundary}` (at its start: the text
\* of a delimiter line whose boundary begins with this one).
HoldsDelimiter(line, boundary) == line.k = "delim" /\ StartsWith(line.v, boundary)

\* What is left of a delimiter line after `--${boundary}`.
AfterDelimiter(line, boundary) ==
  LET rest == SubSeq(line.v, Len(boundary) + 1, Len(line.v))
              \o (IF line.n = "close" THEN <<"--">> ELSE <<>>)
  IN IF rest = <<>> THEN Blank ELSE Text(rest)

\* The line that a run of characters without a line break makes.
ParseLine(seg) ==
  IF seg = <<>> THEN Blank
  ELSE IF IsSpace(seg[1]) THEN Cont(Tail(seg))
  ELSE IF seg[1] = "--"
  THEN IF Len(seg) > 2 /\ seg[Len(seg)] = "--"
       THEN DelimClose(SubSeq(seg, 2, Len(seg) - 1)) ELSE Delim(Tail(seg))
  ELSE IF Len(seg) >= 3 /\ seg[2] = ":" /\ seg[3] = " "
  THEN Hdr(seg[1], SubSeq(seg, 4, Len(seg)))
  ELSE Text(seg)

\* The place of the first `--${boundary}` in the text of a line, 0 when the
\* line does not hold it.
DelimiterAt(line, boundary) ==
  LET text == LineText(line)
      d == <<"--">> \o boundary
      hits == {i \in 1..(Len(text) - Len(d) + 1) : SubSeq(text, i, i + Len(d) - 1) = d}
  IN IF hits = {} THEN 0 ELSE CHOOSE i \in hits : \A j \in hits : i <= j

RECURSIVE SplitLinesFrom(_, _, _, _)
\* The split goes on at line i with the piece cur in progress.  A line that
\* holds the delimiter ends the piece, at its start or in its middle, and
\* what the line has after the delimiter is looked at again.
SplitLinesFrom(lines, boundary, i, cur) ==
  IF i > Len(lines) THEN <<cur>>
  ELSE IF HoldsDelimiter(lines[i], boundary)
  THEN <<Append(cur, Blank)>>
       \o SplitLinesFrom([lines EXCEPT ![i] = AfterDelimiter(lines[i], boundary)],
                         boundary, i, <<>>)
  ELSE IF DelimiterAt(lines[i], boundary) > 0
  THEN LET text == LineText(lines[i])
           at == DelimiterAt(lines[i], boundary)
       IN <<Append(cur, ParseLine(SubSeq(text, 1, at - 1)))>>
          \o SplitLinesFrom([lines EXCEPT ![i] =
                               ParseLine(SubSeq(text, at + Len(boundary) + 1, Len(text)))],
                            boundary, i, <<>>)
  ELSE SplitLinesFrom(lines, boundary, i + 1, Append(cur, lines[i]))

\* text.split(`--${boundary}`): the pieces between the delimiters, each as
\* its lines.  The piece before a delimiter ends with the start of the
\* delimiter's line (empty when the delimiter begins the line), the piece
\* after it starts with the rest of that line.
SplitOnBoundary(lines, boundary) == SplitLinesFrom(lines, boundary, 1, <<>>)

\* Lines 177-198.  The file name is looked for in the whole part, and only
\* when the part has a Content-Disposition line.
extractContentDisposition(part) ==
  LET d == FirstHeaderLine(part, "content-disposition")
      text == Flatten(part)
      quoted == QuotedStarts(text, "filename=")
      bare == BareStarts(text, "filename=")
      First(S) == CHOOSE i \in S : \A j \in S : i <= j
  IN IF d = 0 THEN [filename |-> Undefined, isAttachment |-> FALSE]
     ELSE [filename |->
             IF quoted # {} THEN Str(QuotedAt(text, First(quoted)))
             ELSE IF bare # {} THEN Str(BareAt(text, First(bare)))
             ELSE Undefined,
           isAttachment |-> Includes(Lower(part[d].v), "attachment")]

\* part.match(/\r?\n\r?\n([\s\S]*?)(?:\r?\n\r?\n|$)/): the text between the
\* first empty line and the next one (or the end); undefined without a
\* match.
PartContent(part) ==
  LET b == FirstBlankLine(part)
      rest == SubSeq(part, b + 1, Len(part))
      e == FirstBlankLine(rest)
  IN IF b = 0 THEN Undefined
     ELSE IF e = 0 THEN Str(Flatten(rest))
     ELSE Str(Flatten(SubSeq(rest, 1, e - 1)))

\* The media type of the first Content-Type line, 'text/plain' without one.
ContentTypeOf(lines) ==
  LET c == FirstHeaderLine(lines, "content-type")
  IN IF c = 0 THEN <<"text", "/", "plain">>
     ELSE Lower(Trim(BeforeSemicolon(lines[c].v)))

\* The value of the first Content-Transfer-Encoding line, dflt without one.
EncodingOf(lines, dflt) ==
  LET c == FirstHeaderLine(lines, "content-transfer-encoding")
  IN IF c = 0 THEN dflt ELSE Lower(Trim(lines[c].v))

\* Buffer.from(text): the bytes of a text.
Buffer(bytes) == [t |-> "buf", bytes |-> bytes]

\* The decoded text of a text/plain or text/html part (lines 278-282).
DecodeText(content, encoding) ==
  IF encoding = <<"quoted-printable">> THEN decodeQuotedPrintable(content)
  ELSE IF encoding = <<"base64">> THEN decodeBase64(content)
  ELSE content

\* The decoded bytes of an attachment (lines 305-311).
DecodeAttachment(content, encoding) ==
  IF encoding = <<"base64">> THEN Buffer(decodeBase64(content))
  ELSE IF encoding = <<"quoted-printable">> THEN Buffer(decodeQuotedPrintable(content))
  ELSE Buffer(content)

\* Lines 258-338; st holds textBody, htmlBody and attachments.
processPart(st, part) ==
  LET contentType == ContentTypeOf(part)
      encoding == EncodingOf(part, <<"binary">>)
      cd == extractContentDisposition(part)
      contentMatch == PartContent(part)
      content == Trim(contentMatch.s)
  IN IF ~Truthy(contentMatch) THEN st
     ELSE IF StartsWith(contentType, <<"text", "/", "plain">>) /\ ~cd.isAttachment
     THEN LET text == DecodeText(content, encoding)
          IN IF Len(Trim(text)) > 0
             THEN [st EXCEPT !.textBody = IF st.textBody # <<>>
                                          THEN st.textBody \o <<"\n", "\n">> \o text
                                          ELSE text]
             ELSE st
     ELSE IF StartsWith(contentType, <<"text", "/", "html">>) /\ ~cd.isAttachment
     THEN LET html == DecodeText(content, encoding)
          IN IF Len(Trim(html)) > 0
             THEN [st EXCEPT !.htmlBody = IF st.htmlBody # <<>>
                                          THEN st.htmlBody \o <<"\n">> \o html
                                          ELSE html]
             ELSE st
     ELSE IF \/ cd.isAttachment
             \/ StartsWith(contentType, <<"image", "/">>)
             \/ Truthy(cd.filename)
             \/ IncludesStr(contentType, <<"application", "/">>)
     THEN [st EXCEPT !.attachments =
             Append(st.attachments,
                    [filename |-> Or(cd.filename,
                                     Str(<<"attachment-", ToString(Len(st.attachments) + 1)>>)).s,
                     content |-> DecodeAttachment(content, encoding),
                     contentType |-> Or(Str(contentType),
                                        Str(<<"application", "/", "octet-stream">>)).s])]
     ELSE st

\* part.trim().length === 0 || part.trim() === '--'
SkippedPart(part) == Trim(Flatten(part)) \in {<<>>, <<"--">>}

RECURSIVE ProcessParts(_, _)
\* processPart over the parts that are not skipped, in order.
ProcessParts(st, parts) ==
  IF parts = <<>> THEN st
  ELSE ProcessParts(IF SkippedPart(Head(parts)) THEN st ELSE processPart(st, Head(parts)),
                    Tail(parts))

\* part.match(/Content-Type:[^\n]*boundary="([^"]+)"/i): the boundary of the
\* first Content-Type line that names one, quoted, on the line itself.
NestedBoundary(part) ==
  LET hits == {i \in 1..Len(part) :
                 /\ part[i].k = "hdr" /\ LowerTok(part[i].n) = "content-type"
                 /\ QuotedStarts(Lower(part[i].v), "boundary=") # {}}
  IN IF hits = {} THEN Undefined
     ELSE LET i == CHOOSE x \in hits : \A y \in hits : x <= y
          IN Str(QuotedAt(part[i].v,
                   CHOOSE a \in QuotedStarts(Lower(part[i].v), "boundary=") :
                     \A b \in QuotedStarts(Lower(part[i].v), "boundary=") : b <= a))

RECURSIVE MultipartLoop(_, _)
\* Lines 212-232: a part that names a boundary is split once more and its
\* pieces are processed; any other part is processed as it is.
MultipartLoop(st, parts) ==
  IF parts = <<>> THEN st
  ELSE LET part == Head(parts)
           next == IF SkippedPart(part) THEN st
                   ELSE IF Truthy(NestedBoundary(part))
                   THEN ProcessParts(st, SplitOnBoundary(part, NestedBoundary(part).s))
                   ELSE processPart(st, part)
       IN MultipartLoop(next, Tail(parts))

\* Line 201, second group: the boundary="x" that follows the ";" after the
\* media type of the first Content-Type line, on that line or on any later
\* line of the message; undefined when the type is not followed by ";" or
\* no boundary="x" follows.
MainBoundary(raw) ==
  LET c == FirstHeaderLine(raw, "content-type")
      Tail1(i) == IF i = c THEN FromSemicolon(raw[c].v) ELSE LineText(raw[i])
      hits == {i \in c..Len(raw) : QuotedStarts(Lower(Tail1(i)), "boundary=") # {}}
  IN IF c = 0 \/ FromSemicolon(raw[c].v) = <<>> \/ hits = {} THEN Undefined
     ELSE LET i == CHOOSE x \in hits : \A y \in hits : x <= y
              starts == QuotedStarts(Lower(Tail1(i)), "boundary=")
          IN Str(QuotedAt(Tail1(i), CHOOSE a \in starts : \A b \in starts : a <= b))

\* rawEmail.match(/\r?\n\r?\n([\s\S]*)/): the text after the first empty
\* line, undefined without one.
BodyAfterBlank(raw) ==
  LET b == FirstBlankLine(raw)
  IN IF b = 0 THEN Undefined ELSE Str(Flatten(SubSeq(raw, b + 1, Len(raw))))

\* rawEmail.match(/Content-Transfer-Encoding:\s*quoted-printable/i)
SaysQuotedPrintable(raw) ==
  \E i \in 1..Len(raw) :
    /\ raw[i].k = "hdr" /\ LowerTok(raw[i].n) = "content-transfer-encoding"
    /\ StartsWith(Lower(TrimLeft(raw[i].v)), <<"quoted-printable">>)

\* Lines 234-255.
SinglePart(st, raw) ==
  LET contentMatch == BodyAfterBlank(raw)
      content == Trim(contentMatch.s)
      decoded == IF SaysQuotedPrintable(raw) THEN decodeQuotedPrintable(content) ELSE content
      mainContentType == ContentTypeOf(raw)
  IN IF ~Truthy(contentMatch) THEN st
     ELSE IF mainContentType = <<"text", "/", "plain">> THEN [st EXCEPT !.textBody = decoded]
     ELSE IF mainContentType = <<"text", "/", "html">> THEN [st EXCEPT !.htmlBody = decoded]
     ELSE st

\* Lines 149-255.
ParseBody(raw) ==
  LET st0 == [textBody |-> <<>>, htmlBody |-> <<>>, attachments |-> <<>>]
      mainBoundary == MainBoundary(raw)
  IN IF Truthy(mainBoundary)
     THEN MultipartLoop(st0, SplitOnBoundary(raw, mainBoundary.s))
     ELSE SinglePart(st0, raw)

\* Lines 63-352.
parseS3Email(raw, keyParts) ==
  LET headers == ParseHeaders(raw)
      to == KeyPartsFallback(ParseTo(headers), keyParts)
      body == ParseBody(raw)
  IN IF to.t = "throw" THEN to
     ELSE Ok([from |-> ParseFrom(headers),
              to |-> to.v,
              subject |-> ParseSubject(headers),
              textBody |-> Str(body.textBody),
              htmlBody |-> Str(body.htmlBody),
              attachments |-> IF Len(body.attachments) > 0
                              THEN Arr(body.attachments) ELSE Undefined,
              headers |-> headers,
              date |-> ParseDate(headers)])

\* ------------------------------------------------- inputs of the parse run

Alice == <<"alice", "@", "example", ".", "com">>

Bob == <<"bob", "@", "example", ".", "org">>

Info == <<"info", "@", "example", ".", "com">>

\* The recipient that the S3 key names.
Hint == <<"orders", "@", "example", ".", "com">>

ValidDate == <<"Mon,", " ", "01", " ", "Jan", " ", "2023", " ", "12:00:00", " ", "+0000">>

\* The From lines of a header block: none, From, from, FROM, an empty
\* value, a quoted name folded over two lines, From and from together.
FromLines ==
  { <<>>,
    <<Hdr("From", Alice)>>,
    <<Hdr("from", Bob)>>,
    <<Hdr("FROM", Alice)>>,
    <<Hdr("From", <<>>)>>,
    <<Hdr("From", <<"\"", "John", " ", "Doe", "\"">>), Cont(<<"<">> \o Alice \o <<">">>)>>,
    <<Hdr("from", Bob), Hdr("From", Alice)>> }

SubjectLines ==
  { <<>>,
    <<Hdr("Subject", <<"Hello">>)>>,
    <<Hdr("subject", <<"Re:", " ", "Hello">>)>>,
    <<Hdr("Subject", <<>>)>>,
    <<Hdr("Subject", <<"Hello">>), Text(<<"garbage">>)>> }

\* The To lines: none, one bare address, a named and a bare address, a
\* value without any address, an empty value, the name in capitals.
ToLines ==
  { <<>>,
    <<Hdr("To", Info)>>,
    <<Hdr("To", <<"Sales", " ", "<">> \o Info \o <<">", ",", " ">> \o Bob)>>,
    <<Hdr("To", <<"undisclosed-recipients">>)>>,
    <<Hdr("To", <<>>)>>,
    <<Hdr("TO", Info)>> }

DateLines ==
  { <<>>,
    <<Hdr("Date", ValidDate)>>,
    <<Hdr("date", ValidDate)>>,
    <<Hdr("Date", <<"sometime", " ", "soon">>)>>,
    <<Hdr("Date", <<>>)>> }

TextPlain == <<"text", "/", "plain">>

TextHtml == <<"text", "/", "html">>

Charset == <<";", " ", "charset=", "UTF-8">>

BoundaryParam(b) == <<";", " ", "boundary=", "\"">> \o b \o <<"\"">>

\* The content headers and the rest of the message: what follows the other
\* headers.  A message without an empty line, plain and HTML single parts,
\* a quoted-printable body, a body of another type, multipart messages
\* (alternative; mixed with a base64 attachment and with base64 text that
\* is no base64; a boundary that is named but never used), an empty
\* first line, a multipart message with an inline text part that has a
\* file name and an image that is named in its Content-Type only, and a
\* multipart message with two text and two HTML parts, one whose text
\* and HTML part have two paragraphs each, one whose text part holds the
\* delimiter in the middle of a line, a multipart message whose boundary
\* is not quoted, and a message without a Content-Type header whose body
\* quotes a Content-Type line.
Bodies ==
  { <<>>,
    <<Blank, Text(<<"Hello", " ", "there">>)>>,
    <<Hdr("Content-Type", TextPlain \o Charset), Blank, Text(<<"Hello">>), Blank, Text(<<"Bye">>)>>,
    <<Hdr("Content-Type", TextHtml), Blank, Text(<<"<b>", "Hi", "</b>">>)>>,
    <<Hdr("Content-Type", TextPlain), Hdr("Content-Transfer-Encoding", <<"quoted-printable">>),
      Blank, Text(<<"a", "=", "3", "D", "b", "=">>), Text(<<"c">>)>>,
    <<Hdr("Content-Type", <<"application", "/", "pdf">>),
      Hdr("Content-Transfer-Encoding", <<"base64">>), Blank, Text(<<"SGVsbG8">>)>>,
    <<Hdr("Content-Type", <<"multipart", "/", "alternative">> \o BoundaryParam(<<"b1">>)), Blank,
      Delim(<<"b1">>), Hdr("Content-Type", TextPlain \o Charset), Blank, Text(<<"Hello">>), Blank,
      Delim(<<"b1">>), Hdr("Content-Type", TextHtml), Blank, Text(<<"<b>", "Hi", "</b>">>), Blank,
      DelimClose(<<"b1">>)>>,
    <<Hdr("Content-Type", <<"multipart", "/", "mixed">> \o BoundaryParam(<<"b1">>)), Blank,
      Delim(<<"b1">>), Hdr("Content-Type", TextPlain),
      Hdr("Content-Transfer-Encoding", <<"base64">>), Blank, Text(<<"not", " ", "base64!">>),
      Delim(<<"b1">>), Hdr("Content-Type", <<"application", "/", "pdf">>),
      Hdr("Content-Disposition", <<"attachment", ";", " ", "filename=", "\"", "report.pdf", "\"">>),
      Hdr("Content-Transfer-Encoding", <<"base64">>), Blank, Text(<<"SGVsbG8">>),
      DelimClose(<<"b1">>)>>,
    <<Hdr("Content-Type", <<"multipart", "/", "mixed">> \o BoundaryParam(<<"b1">>)), Blank,
      Text(<<"no", " ", "delimiter", " ", "here">>)>>,
    <<Blank, Blank, Text(<<"Hello">>)>>,
    <<Hdr("Content-Type", <<"multipart", "/", "mixed">> \o BoundaryParam(<<"b1">>)), Blank,
      Delim(<<"b1">>), Hdr("Content-Type", TextPlain), Blank, Text(<<"Hello">>),
      Delim(<<"b1">>), Hdr("Content-Type", TextPlain),
      Hdr("Content-Disposition", <<"inline", ";", " ", "filename=", "\"", "notes.txt", "\"">>),
      Blank, Text(<<"Note">>),
      Delim(<<"b1">>),
      Hdr("Content-Type", <<"image", "/", "png", ";", " ", "name=", "\"", "logo.png", "\"">>),
      Hdr("Content-Transfer-Encoding", <<"base64">>), Blank, Text(<<"SGVsbG8">>),
      DelimClose(<<"b1">>)>>,
    <<Hdr("Content-Type", <<"multipart", "/", "mixed">> \o BoundaryParam(<<"b1">>)), Blank,
      Delim(<<"b1">>), Hdr("Content-Type", TextPlain), Blank, Text(<<"Hello">>),
      Delim(<<"b1">>), Hdr("Content-Type", TextHtml), Blank, Text(<<"<b>", "Hi", "</b>">>),
      Delim(<<"b1">>), Hdr("Content-Type", TextPlain), Blank, Text(<<"Bye">>),
      Delim(<<"b1">>), Hdr("Content-Type", TextHtml), Blank, Text(<<"<p>", "Bye", "</p>">>),
      DelimClose(<<"b1">>)>>,
    <<Hdr("Content-Type", <<"multipart", "/", "alternative">> \o BoundaryParam(<<"b1">>)), Blank,
      Delim(<<"b1">>), Hdr("Content-Type", TextPlain), Blank,
      Text(<<"Dear", " ", "Bob,">>), Blank, Text(<<"see", " ", "you", " ", "soon.">>),
      Delim(<<"b1">>), Hdr("Content-Type", TextHtml), Blank,
      Text(<<"<p>", "Dear", " ", "Bob,", "</p>">>), Blank, Text(<<"<p>", "see", " ", "you", "</p>">>),
      DelimClose(<<"b1">>)>>,
    <<Hdr("Content-Type", <<"multipart", "/", "mixed">> \o BoundaryParam(<<"b1">>)), Blank,
      Delim(<<"b1">>), Hdr("Content-Type", TextPlain), Blank,
      Text(<<"a", " ", "line", " ", "--", "b1", " ", "ends", " ", "a", " ", "part">>),
      Delim(<<"b1">>), Hdr("Content-Type", <<"application", "/", "pdf">>),
      Hdr("Content-Transfer-Encoding", <<"base64">>), Blank, Text(<<"SGVsbG8">>),
      DelimClose(<<"b1">>)>>,
    <<Hdr("Content-Type", <<"multipart", "/", "mixed", ";", " ", "boundary=", "b1">>), Blank,
      Delim(<<"b1">>), Hdr("Content-Type", TextPlain), Blank, Text(<<"Hello">>),
      DelimClose(<<"b1">>)>>,
    <<Blank, Text(<<"She", " ", "wrote:">>), Hdr("Content-Type", TextHtml),
      Text(<<"Hello">>)>> }

\* The element at position i of an S3 key split at "/": the prefix, then the
\* recipient (or a folder name), then the message id.
KeyPartChoices(i) ==
  CASE i = 1 -> { <<"emails">> }
    [] i = 2 -> { Hint, <<"inbox">> }
    [] OTHER -> { <<"12345">> }

\* keyParts: absent, or a list of 0..MaxKeyParts elements.
KeyPartsChoices ==
  {Undefined} \cup
  UNION { { Arr(a) : a \in {x \in [1..n -> UNION {KeyPartChoices(i) : i \in 1..n}] :
                              \A i \in 1..n : x[i] \in KeyPartChoices(i)} }
          : n \in 0..MaxKeyParts }

Messages ==
  { f \o u \o t \o d \o b :
      f \in FromLines, u \in SubjectLines, t \in ToLines, d \in DateLines, b \in Bodies }

InitParse ==
  /\ pc = "call"
  /\ fn = "parseS3Email"
  /\ args \in [raw : Messages, keyParts : KeyPartsChoices]
  /\ ret = Undefined

CallParse ==
  /\ pc = "call"
  /\ fn = "parseS3Email"
  /\ ret' = parseS3Email(args.raw, args.keyParts)
  /\ pc' = "done"
  /\ UNCHANGED <<fn, args>>

NextParse == CallParse

SpecParse == InitParse /\ [][NextParse]_vars

\* ------------------------------------------------ claims on parseS3Email

\* The call of parseS3Email has returned or thrown.
ParseDone == fn = "parseS3Email" /\ pc = "done"

\* The values, unfolded, of the header lines of the header block whose name
\* is lname whatever its letter case.
HeaderValues(raw, lname) ==
  LET block == HeaderLines(raw)
      Folded(i) == IF i < Len(block) /\ block[i + 1].k = "cont"
                   THEN <<" ">> \o Trim(block[i + 1].v) ELSE <<>>
  IN { block[i].v \o Folded(i) :
         i \in {x \in 1..Len(block) : block[x].k = "hdr" /\ LowerTok(block[x].n) = lname} }

\* C4: parseS3Email never raises: for every message (empty, without
\* headers, multipart without delimiters, base64 that is no base64) and
\* every keyParts (absent, empty, short) it returns an EmailContent value.
C4_ParseNeverRaises ==
  ParseDone =>
    /\ ret.t = "ok"
    /\ DOMAIN ret.v = {"from", "to", "subject", "textBody", "htmlBody",
                       "attachments", "headers", "date"}

\* The empty message has been parsed with an empty list of key parts and
\* has given a result with the default sender and no recipient.
C4_Witness ==
  /\ ParseDone
  /\ args.raw = <<>>
  /\ args.keyParts = Arr(<<>>)
  /\ ret.t = "ok"
  /\ ret.v.from = DefaultFrom
  /\ ret.v.to = <<>>

\* The second element of keyParts when it is there and holds an "@".
HintOf(keyParts) ==
  IF keyParts.t = "arr" /\ Len(keyParts.a) >= 2 /\ Includes(keyParts.a[2], "@")
  THEN Str(keyParts.a[2]) ELSE Undefined

\* C8: when the To header of the header block yields no address and
\* keyParts has a second element with an "@", `to` is the one-element list
\* of that element; when the To header yields an address, or the second
\* element is missing or has no "@", no element of keyParts is added to `to`.
C8_HintOnlyWithoutToAddress ==
  (ParseDone /\ ret.t = "ok") =>
    LET toYields == HeaderValues(args.raw, "to") \ {<<>>} # {}
        hint == HintOf(args.keyParts)
    IN IF ~toYields /\ Truthy(hint)
       THEN ret.v.to = <<hint.s>>
       ELSE \A i \in 1..Len(ret.v.to) :
              args.keyParts.t = "arr" =>
                \A k \in 1..Len(args.keyParts.a) : ret.v.to[i] # args.keyParts.a[k]

\* C9: `from` is the value of the From header of the header block when it
\* has one and "unknown@example.com" otherwise, `subject` the value of the
\* Subject header and "No Subject" otherwise; neither is ever empty.
C9_FromAndSubjectOrDefaults ==
  (ParseDone /\ ret.t = "ok") =>
    LET fromValues == HeaderValues(args.raw, "from") \ {<<>>}
        subjectValues == HeaderValues(args.raw, "subject") \ {<<>>}
    IN /\ IF fromValues # {} THEN ret.v.from \in fromValues ELSE ret.v.from = DefaultFrom
       /\ IF subjectValues # {} THEN ret.v.subject \in subjectValues
          ELSE ret.v.subject = DefaultSubject
       /\ ret.v.from # <<>>
       /\ ret.v.subject # <<>>

\* C10: `date` is always a valid point in time: the parsed value of the Date
\* header when the header block has one that parses, the current time when
\* it has none and when its value does not parse.
C10_DateAlwaysValid ==
  (ParseDone /\ ret.t = "ok") =>
    LET parseable == HeaderValues(args.raw, "date") \cap ParseableDates
    IN /\ ret.v.date.time # <<"NaN">>
       /\ IF parseable # {} THEN ret.v.date.time \in parseable ELSE ret.v.date = Now

\* C12: a message without an empty line between headers and body is parsed
\* without an error, its header map is empty, and the whole message is its
\* body: under the default type text/plain the text body is the message.
C12_NoBlankLineAllIsBody ==
  ParseDone /\ FirstBlankLine(args.raw) = 0 =>
    /\ ret.t = "ok"
    /\ DOMAIN ret.v.headers = {}
    /\ FirstHeaderLine(args.raw, "content-type") = 0 =>
         Trim(ret.v.textBody.s) = Trim(Flatten(args.raw))

\* Whether a Content-Type line of the message names the media type: no part
\* of the message, and not the message itself, can have this type otherwise.
\* A message without any Content-Type line is text/plain.
HasPartOfType(raw, type) ==
  \/ type = TextPlain /\ FirstHeaderLine(raw, "content-type") = 0
  \/ \E i \in 1..Len(raw) :
       /\ raw[i].k = "hdr" /\ LowerTok(raw[i].n) = "content-type"
       /\ StartsWith(Lower(TrimLeft(raw[i].v)), type)

\* C18: the result has no textBody (undefined, not the empty string) when
\* the message has no text/plain content and no htmlBody when it has no
\* text/html content, and its attachments are absent or empty exactly when
\* no attachment was found.
C18_AbsentNotEmpty ==
  (ParseDone /\ ret.t = "ok") =>
    /\ ~HasPartOfType(args.raw, TextPlain) => ret.v.textBody = Undefined
    /\ ~HasPartOfType(args.raw, TextHtml) => ret.v.htmlBody = Undefined
    /\ ret.v.attachments \in {Undefined, Arr(<<>>)} <=> ParseBody(args.raw).attachments = <<>>

RECURSIVE LeafPartsOf(_)
\* The parts that the loops of lines 212-231 hand to processPart, in order.
LeafPartsOf(parts) ==
  IF parts = <<>> THEN <<>>
  ELSE LET part == Head(parts)
           Kept(ps) == SelectSeq(ps, LAMBDA p : ~SkippedPart(p))
       IN (IF SkippedPart(part) THEN <<>>
           ELSE IF Truthy(NestedBoundary(part))
           THEN Kept(SplitOnBoundary(part, NestedBoundary(part).s))
           ELSE <<part>>)
          \o LeafPartsOf(Tail(parts))

\* The leaf parts of a multipart message that have content.
LeafParts(raw) ==
  SelectSeq(LeafPartsOf(SplitOnBoundary(raw, MainBoundary(raw).s)),
            LAMBDA p : Truthy(PartContent(p)) /\ Trim(PartContent(p).s) # <<>>)

\* What parseS3Email made of a leaf part.
ClassifiedAs(part) ==
  LET st == processPart([textBody |-> <<>>, htmlBody |-> <<>>, attachments |-> <<>>], part)
  IN IF st.attachments # <<>> THEN "attachment"
     ELSE IF st.textBody # <<>> THEN "text"
     ELSE IF st.htmlBody # <<>> THEN "html"
     ELSE "ignored"

\* C19: a leaf part of a multipart message is an attachment when its
\* disposition is attachment, or it has a file name, or its media type
\* starts with image/ or contains application/; else text when its type is
\* text/plain; else HTML when its type is text/html; else it is ignored.
\* An inline text part with a file name is an attachment and adds nothing
\* to the text body.
C19_AttachmentRuleFirst ==
  (ParseDone /\ ret.t = "ok" /\ Truthy(MainBoundary(args.raw))) =>
    \A i \in 1..Len(LeafParts(args.raw)) :
      LET part == LeafParts(args.raw)[i]
          cd == extractContentDisposition(part)
          type == ContentTypeOf(part)
      IN ClassifiedAs(part) =
           IF \/ cd.isAttachment
              \/ Truthy(cd.filename)
              \/ StartsWith(type, <<"image", "/">>)
              \/ IncludesStr(type, <<"application", "/">>)
           THEN "attachment"
           ELSE IF type = TextPlain THEN "text"
           ELSE IF type = TextHtml THEN "html"
           ELSE "ignored"

\* The name parameter of the Content-Type line of a part, undefined
\* without one.
NameParameter(part) ==
  LET c == FirstHeaderLine(part, "content-type")
      starts == IF c = 0 THEN {} ELSE QuotedStarts(Lower(part[c].v), "name=")
  IN IF starts = {} THEN Undefined
     ELSE Str(QuotedAt(part[c].v, CHOOSE a \in starts : \A b \in starts : a <= b))

\* C20: every attachment of the result has a file name and a content type
\* that are not empty.  The file name is the filename of the part's
\* Content-Disposition, else the name of its Content-Type, else
\* "attachment-" and the 1-based position of the attachment in the list;
\* the content type is that of the part, application/octet-stream when the
\* part names none.
C20_AttachmentNameAndType ==
  (ParseDone /\ ret.t = "ok" /\ Truthy(MainBoundary(args.raw))) =>
    LET found == SelectSeq(LeafParts(args.raw), LAMBDA p : ClassifiedAs(p) = "attachment")
        attachments == IF ret.v.attachments = Undefined THEN <<>> ELSE ret.v.attachments.a
    IN /\ Len(attachments) = Len(found)
       /\ \A n \in 1..Len(found) :
            /\ attachments[n].filename # <<>>
            /\ attachments[n].contentType # <<>>
            /\ attachments[n].filename =
                 Or(Or(extractContentDisposition(found[n]).filename, NameParameter(found[n])),
                    Str(<<"attachment-", ToString(n)>>)).s
            /\ attachments[n].contentType =
                 IF FirstHeaderLine(found[n], "content-type") = 0
                 THEN <<"application", "/", "octet-stream">>
                 ELSE ContentTypeOf(found[n])

RECURSIVE JoinTexts(_, _)
\* The texts joined with the separator between them.
JoinTexts(texts, sep) ==
  IF texts = <<>> THEN <<>>
  ELSE IF Len(texts) = 1 THEN Head(texts)
  ELSE Head(texts) \o sep \o JoinTexts(Tail(texts), sep)

\* The decoded bodies of the leaf parts of a multipart message that
\* parseS3Email takes for text (kind "text") or for HTML (kind "html"), in
\* the order of the message.
DecodedBodies(raw, kind) ==
  LET st0 == [textBody |-> <<>>, htmlBody |-> <<>>, attachments |-> <<>>]
      leaves == SelectSeq(LeafParts(raw), LAMBDA p : ClassifiedAs(p) = kind)
  IN [i \in 1..Len(leaves) |->
        IF kind = "text" THEN processPart(st0, leaves[i]).textBody
        ELSE processPart(st0, leaves[i]).htmlBody]

\* C21: the text body of a multipart message is the decoded bodies of its
\* text/plain leaves in the order of the message, with an empty line between
\* two of them; its HTML body is the decoded bodies of its text/html leaves,
\* joined in the same way with an empty line between two of them.
C21_BodiesJoinedByBlankLine ==
  (ParseDone /\ ret.t = "ok" /\ Truthy(MainBoundary(args.raw))) =>
    LET texts == DecodedBodies(args.raw, "text")
        htmls == DecodedBodies(args.raw, "html")
    IN /\ texts # <<>> => ret.v.textBody.s = JoinTexts(texts, <<"\n", "\n">>)
       /\ htmls # <<>> => ret.v.htmlBody.s = JoinTexts(htmls, <<"\n", "\n">>)

\* The segment of a leaf part after the empty line that ends its headers,
\* up to the delimiter that follows, without the white space around it.
SegmentPayload(part) ==
  Trim(Flatten(SubSeq(part, FirstBlankLine(part) + 1, Len(part))))

\* C22: the payload of a leaf part is the whole of its segment after the
\* empty line that ends its headers: the decoded whole is in the text body
\* for a text leaf, in the HTML body for an HTML leaf, and is the content of
\* an attachment for an attachment leaf, also when the segment has empty
\* lines of its own.
C22_WholeSegmentIsPayload ==
  (ParseDone /\ ret.t = "ok" /\ Truthy(MainBoundary(args.raw))) =>
    \A i \in 1..Len(LeafParts(args.raw)) :
      LET part == LeafParts(args.raw)[i]
          encoding == EncodingOf(part, <<"binary">>)
          kind == ClassifiedAs(part)
      IN /\ kind = "text" =>
              IncludesStr(ret.v.textBody.s, DecodeText(SegmentPayload(part), encoding))
         /\ kind = "html" =>
              IncludesStr(ret.v.htmlBody.s, DecodeText(SegmentPayload(part), encoding))
         /\ kind = "attachment" =>
              \E n \in 1..Len(ret.v.attachments.a) :
                ret.v.attachments.a[n].content = DecodeAttachment(SegmentPayload(part), encoding)

\* The value, unfolded, of the Content-Type header of the header block;
\* undefined when the header block has none.
TopContentType(raw) ==
  LET values == HeaderValues(raw, "content-type")
  IN IF values = {} THEN Undefined ELSE Str(CHOOSE v \in values : TRUE)

\* Whether the header block declares a multipart message: a media type that
\* starts with multipart/ and a boundary parameter, quoted or not.
DeclaresMultipart(raw) ==
  LET type == TopContentType(raw)
  IN /\ Truthy(type)
     /\ StartsWith(Lower(Trim(BeforeSemicolon(type.s))), <<"multipart", "/">>)
     /\ \/ QuotedStarts(FromSemicolon(type.s), "boundary=") # {}
        \/ BareStarts(FromSemicolon(type.s), "boundary=") # {}

\* C25: parseS3Email splits a message at a boundary exactly when the
\* Content-Type header of its header block has a multipart/ type and a
\* boundary parameter, quoted or not; and a message whose header block has
\* no Content-Type header is text/plain, whatever its body quotes: its body
\* is the text body and it has no HTML body.
C25_MultipartByTopHeader ==
  (ParseDone /\ ret.t = "ok") =>
    /\ Truthy(MainBoundary(args.raw)) <=> DeclaresMultipart(args.raw)
    /\ (~Truthy(TopContentType(args.raw)) /\ Truthy(BodyAfterBlank(args.raw))) =>
         /\ ret.v.textBody.s = Trim(BodyAfterBlank(args.raw).s)
         /\ ret.v.htmlBody.s = <<>>

\* The message with the names of its From, Subject, To and Date lines in
\* their canonical spelling.
CanonicalNames(raw) ==
  [i \in 1..Len(raw) |->
     IF raw[i].k # "hdr" THEN raw[i]
     ELSE CASE LowerTok(raw[i].n) = "from" -> [raw[i] EXCEPT !.n = "From"]
            [] LowerTok(raw[i].n) = "subject" -> [raw[i] EXCEPT !.n = "Subject"]
            [] LowerTok(raw[i].n) = "to" -> [raw[i] EXCEPT !.n = "To"]
            [] LowerTok(raw[i].n) = "date" -> [raw[i] EXCEPT !.n = "Date"]
            [] OTHER -> raw[i]]

\* C26: the letter case of a header name does not matter: from, subject, to
\* and date of the result are those of the same message with the names
\* From, Subject, To and Date in their canonical spelling.
C26_HeaderNamesAnyCase ==
  (ParseDone /\ ret.t = "ok") =>
    LET canonical == parseS3Email(CanonicalNames(args.raw), args.keyParts)
    IN /\ canonical.t = "ok"
       /\ ret.v.from = canonical.v.from
       /\ ret.v.subject = canonical.v.subject
       /\ ret.v.to = canonical.v.to
       /\ ret.v.date = canonical.v.date

\* C28: a message that is not multipart and whose header block names a
\* media type other than text/plain and text/html has, as its only
\* attachment, its decoded body, and has no text body and no HTML body.
C28_OtherTypeIsOneAttachment ==
  (ParseDone /\ ret.t = "ok") =>
    LET type == TopContentType(args.raw)
        mediaType == Lower(Trim(BeforeSemicolon(type.s)))
        body == BodyAfterBlank(args.raw)
    IN (/\ Truthy(type)
        /\ mediaType \notin {TextPlain, TextHtml}
        /\ ~StartsWith(mediaType, <<"multipart", "/">>)
        /\ Truthy(body)) =>
         /\ ret.v.attachments.t = "arr"
         /\ Len(ret.v.attachments.a) = 1
         /\ ret.v.attachments.a[1].content =
              DecodeAttachment(Trim(body.s), EncodingOf(HeaderLines(args.raw), <<"binary">>))
         /\ ret.v.textBody = Undefined
         /\ ret.v.htmlBody = Undefined

\* ------------------------------------- parseS3Email: the loops over the parts

RECURSIVE NestedLevel(_)
\* A multipart container nested d levels deep around a text/plain leaf; the
\* container of level d uses the boundary "n" d.
NestedLevel(d) ==
  IF d = 0
  THEN <<Hdr("Content-Type", TextPlain), Blank, Text(<<"leaf">>)>>
  ELSE <<Hdr("Content-Type",
             <<"multipart", "/", "mixed">> \o BoundaryParam(<<"n", ToString(d)>>)),
         Blank, Delim(<<"n", ToString(d)>>)>>
       \o NestedLevel(d - 1)
       \o <<DelimClose(<<"n", ToString(d)>>)>>

\* The messages of the walk: every body of the parse run under a From or a
\* Subject line, and containers nested 1..MaxNesting levels deep.
WalkMessages ==
  { h \o b : h \in { <<Hdr("From", Alice)>>, <<Hdr("Subject", <<"Hello">>)>> },
              b \in Bodies \cup { NestedLevel(d) : d \in 1..MaxNesting } }

\* ret holds the locals of parseS3Email while the loops of lines 207-232
\* run: the bodies and attachments found so far (st), the parts and the
\* nested parts still to visit, and the number of loop iterations taken.
InitWalk ==
  /\ pc = "split"
  /\ fn = "parseS3Email.parts"
  /\ args \in [raw : WalkMessages, keyParts : {Undefined}]
  /\ ret = [st |-> [textBody |-> <<>>, htmlBody |-> <<>>, attachments |-> <<>>],
            parts |-> <<>>, nested |-> <<>>, work |-> 0]

\* Lines 207-209 and 233-255: a message with a main boundary is split at it,
\* any other message is handled as a single part.
WalkSplit ==
  /\ pc = "split"
  /\ fn = "parseS3Email.parts"
  /\ IF Truthy(MainBoundary(args.raw))
     THEN /\ ret' = [ret EXCEPT !.parts = SplitOnBoundary(args.raw, MainBoundary(args.raw).s)]
          /\ pc' = "part"
     ELSE /\ ret' = [ret EXCEPT !.st = SinglePart(ret.st, args.raw)]
          /\ pc' = "return"
  /\ UNCHANGED <<fn, args>>

\* Lines 212-231, one iteration of the outer loop: a skipped part, a part
\* that names a boundary and is split once more, or a part that is processed.
WalkPart ==
  /\ pc = "part"
  /\ fn = "parseS3Email.parts"
  /\ ret.parts # <<>>
  /\ ret.work < MaxWork
  /\ LET part == Head(ret.parts)
         next == [ret EXCEPT !.parts = Tail(ret.parts), !.work = ret.work + 1]
     IN IF SkippedPart(part)
        THEN ret' = next /\ pc' = "part"
        ELSE IF Truthy(NestedBoundary(part))
        THEN /\ ret' = [next EXCEPT !.nested = SplitOnBoundary(part, NestedBoundary(part).s)]
             /\ pc' = "nested"
        ELSE ret' = [next EXCEPT !.st = processPart(ret.st, part)] /\ pc' = "part"
  /\ UNCHANGED <<fn, args>>

\* The inner loop of a mutated parser that descends: a piece that names a
\* boundary is split again and its pieces join the pieces still to visit.
WalkNested_Descend ==
  /\ pc = "nested"
  /\ fn = "parseS3Email.parts"
  /\ ret.nested # <<>>
  /\ ret.work < MaxWork
  /\ LET nestedPart == Head(ret.nested)
         next == [ret EXCEPT !.nested = Tail(ret.nested), !.work = ret.work + 1]
     IN ret' = IF SkippedPart(nestedPart) THEN next
               ELSE IF Truthy(NestedBoundary(nestedPart))
               THEN [next EXCEPT !.nested =
                       SplitOnBoundary(nestedPart, NestedBoundary(nestedPart).s)
                       \o Tail(ret.nested)]
               ELSE [next EXCEPT !.st = processPart(ret.st, nestedPart)]
  /\ UNCHANGED <<pc, fn, args>>

\* Lines 222-227, one iteration of the inner loop, which hands every piece
\* to processPart and never splits a piece again.
WalkNested ==
  /\ pc = "nested"
  /\ fn = "parseS3Email.parts"
  /\ ret.nested # <<>>
  /\ ret.work < MaxWork
  /\ LET nestedPart == Head(ret.nested)
         next == [ret EXCEPT !.nested = Tail(ret.nested), !.work = ret.work + 1]
     IN ret' = IF SkippedPart(nestedPart) THEN next
               ELSE [next EXCEPT !.st = processPart(ret.st, nestedPart)]
  /\ UNCHANGED <<pc, fn, args>>

\* Line 228: the inner loop has visited every piece.
WalkNestedEnd ==
  /\ pc = "nested"
  /\ fn = "parseS3Email.parts"
  /\ ret.nested = <<>>
  /\ pc' = "part"
  /\ UNCHANGED <<fn, args, ret>>

\* Lines 232 and 256: the loops are over and the function goes on to return.
WalkReturn ==
  /\ fn = "parseS3Email.parts"
  /\ pc = "return" \/ (pc = "part" /\ ret.parts = <<>>)
  /\ pc' = "done"
  /\ UNCHANGED <<fn, args, ret>>

NextWalk == WalkSplit \/ WalkPart \/ WalkNested \/ WalkNestedEnd \/ WalkReturn

\* The loops are sequential code: a step that can be taken is taken.
SpecWalk == InitWalk /\ [][NextWalk]_vars /\ WF_vars(NextWalk)

\* -------------------------------------------- claims on the walk of the parts

\* The containers around the leaf of a message: how often a Content-Type
\* line of the message names a boundary.
NestingDepth(raw) ==
  Cardinality({i \in 1..Len(raw) :
                 /\ raw[i].k = "hdr" /\ LowerTok(raw[i].n) = "content-type"
                 /\ QuotedStarts(Lower(raw[i].v), "boundary=") # {}})

RECURSIVE LinesLeft(_)
\* The lines of the parts still to visit, and three more for every part.
LinesLeft(parts) ==
  IF parts = <<>> THEN 0 ELSE Len(Head(parts)) + 3 + LinesLeft(Tail(parts))

\* A number that bounds the steps the walk may still take.
WalkLeft ==
  CASE pc = "split" -> 5 * Len(args.raw) + 8
    [] pc = "part" -> LinesLeft(ret.parts) + 1
    [] pc = "nested" -> LinesLeft(ret.parts) + Len(ret.nested) + 2
    [] pc = "return" -> 1
    [] OTHER -> 0

\* The walk is at a place where one of its steps can be taken.
WalkCanStep ==
  \/ pc \in {"split", "return"}
  \/ pc = "part" /\ (ret.parts = <<>> \/ ret.work < MaxWork)
  \/ pc = "nested" /\ (ret.nested = <<>> \/ ret.work < MaxWork)

\* C11: the walk over the parts of every message ends, also of a message
\* whose containers are nested deeper than the walk descends: until it has
\* ended it can always take a step, every step brings it nearer to its end,
\* it takes at most one loop iteration per line of the message and one
\* more, whatever the nesting depth, and it ends with the bodies and
\* attachments that parseS3Email returns.
C11_WalkEndsWithinBound ==
  /\ [](fn = "parseS3Email.parts" =>
          /\ ret.work <= Len(args.raw) + 1
          /\ pc # "done" => WalkCanStep
          /\ pc = "done" => ret.st = ParseBody(args.raw))
  /\ [][fn = "parseS3Email.parts" => WalkLeft' < WalkLeft]_vars

\* A walk has ended on a message nested deeper than the two levels that the
\* loops split, after at least one iteration of the inner loop.
C11_Witness ==
  /\ fn = "parseS3Email.parts"
  /\ pc = "done"
  /\ NestingDepth(args.raw) > 2
  /\ ret.work > 2

RECURSIVE DeepLeaves(_, _)
\* The leaves of the pieces of a container at the given depth, in the order
\* of the message: a piece that names a boundary is a container whose own
\* pieces, after the one that holds its headers, are entered in turn, down
\* to ten containers deep.
DeepLeaves(parts, depth) ==
  IF parts = <<>> THEN <<>>
  ELSE LET part == Head(parts)
       IN (IF SkippedPart(part) THEN <<>>
           ELSE IF Truthy(NestedBoundary(part)) /\ depth < 10
           THEN DeepLeaves(Tail(SplitOnBoundary(part, NestedBoundary(part).s)), depth + 1)
           ELSE <<part>>)
          \o DeepLeaves(Tail(parts), depth)

\* C23: of a multipart message whose containers are nested up to ten
\* deep, every leaf at every depth is processed as a part of its own, in
\* the order of the message: the walk ends with the bodies and attachments
\* that processing the leaves one after the other gives.
C23_EveryLeafAtEveryDepth ==
  (fn = "parseS3Email.parts" /\ pc = "done" /\ Truthy(MainBoundary(args.raw))) =>
    ret.st = ProcessParts([textBody |-> <<>>, htmlBody |-> <<>>, attachments |-> <<>>],
                          DeepLeaves(Tail(SplitOnBoundary(args.raw, MainBoundary(args.raw).s)), 1))

RECURSIVE AnchoredSplitFrom(_, _, _, _)
\* The pieces of a split that ends a piece only at a line that begins with
\* the delimiter.
AnchoredSplitFrom(lines, boundary, i, cur) ==
  IF i > Len(lines) THEN <<cur>>
  ELSE IF DelimiterAt(lines[i], boundary) = 1
  THEN <<Append(cur, Blank)>>
       \o AnchoredSplitFrom(lines, boundary, i + 1, <<AfterDelimiter(lines[i], boundary)>>)
  ELSE AnchoredSplitFrom(lines, boundary, i + 1, Append(cur, lines[i]))

\* C24: a multipart body is split only where the delimiter begins a line:
\* the pieces that the walk gets from the split at the main boundary, and
\* from the split of a part at the boundary it names, are those between the
\* lines that begin with the delimiter, so that a delimiter in the middle
\* of a line never ends a piece.
C24_SplitOnlyAtLineStart ==
  [][fn = "parseS3Email.parts" =>
       /\ (pc = "split" /\ pc' = "part") =>
            ret'.parts = AnchoredSplitFrom(args.raw, MainBoundary(args.raw).s, 1, <<>>)
       /\ (pc = "part" /\ pc' = "nested") =>
            ret'.nested = AnchoredSplitFrom(Head(ret.parts), NestedBoundary(Head(ret.parts)).s,
                                            1, <<>>)]_vars

\* ---------------------------------------------- parseS3Email: called twice

\* The messages parsed twice: a Date line (none, Date, date, DATE, a value
\* that is no date, an empty value) before every body of the parse run.
TwiceMessages ==
  { <<Hdr("From", Alice)>> \o d \o b :
      d \in DateLines \cup { <<Hdr("DATE", ValidDate)>> }, b \in Bodies }

\* The result of a call made when the clock shows tick: new Date() of
\* line 140 is that reading.
AtClock(out, tick) ==
  IF out.t = "ok" /\ out.v.date = Now
  THEN [out EXCEPT !.v.date = [t |-> "date", time |-> <<"now", ToString(tick)>>]]
  ELSE out

\* ret holds the results of the calls made so far and the last reading
\* of the clock.
InitTwice ==
  /\ pc = "call"
  /\ fn = "parseS3Email.twice"
  /\ args \in [raw : TwiceMessages, keyParts : {Undefined, Arr(<<<<"emails">>, Hint, <<"12345">>>>)}]
  /\ ret = [results |-> <<>>, clock |-> 1]

\* One call of parseS3Email with the same bytes and key parts, at a time
\* not before the earlier call.  The function keeps nothing between calls:
\* its regular expressions and locals are created in the call (lines 63-352).
CallTwice ==
  /\ fn = "parseS3Email.twice"
  /\ pc \in {"call", "again"}
  /\ \E tick \in ret.clock..MaxTicks :
       ret' = [results |-> Append(ret.results,
                                  AtClock(parseS3Email(args.raw, args.keyParts), tick)),
               clock |-> tick]
  /\ pc' = IF pc = "call" THEN "again" ELSE "done"
  /\ UNCHANGED <<fn, args>>

NextTwice == CallTwice

SpecTwice == InitTwice /\ [][NextTwice]_vars

\* ------------------------------------------- claims on parsing twice

\* The header block has a Date header, in any letter case, whose value is
\* a date.
DatePresentAndParseable(raw) == HeaderValues(raw, "date") \cap ParseableDates # {}

\* C13: two calls of parseS3Email with the same bytes and the same key
\* parts return equal from, to, subject, textBody, htmlBody, attachments
\* and headers, and an equal date when the message has a Date header that
\* is a date.
C13_SameInputSameResult ==
  fn = "parseS3Email.twice" /\ pc = "done" =>
    LET a == ret.results[1]
        b == ret.results[2]
    IN /\ a.t = "ok" /\ b.t = "ok"
       /\ [a.v EXCEPT !.date = Now] = [b.v EXCEPT !.date = Now]
       /\ DatePresentAndParseable(args.raw) => a.v.date = b.v.date

\* ------------------------------------- formatRawForwardedEmail: extraction

\* The lines of a text, as those of `${text}` in a template.
LinesOf(s) == LET segs == Split(s, "\n") IN [i \in 1..Len(segs) |-> ParseLine(segs[i])]

\* rawEmail.match(/^Name:\s*(.*)$/im), group 1 trimmed: the first line of
\* the whole message (header block or not) that starts with the name,
\* whatever its letter case.  \s* also runs over line breaks, so that for
\* an empty value the group is the next line that is not empty; undefined
\* without a match.
FirstLineValue(raw, lname) ==
  LET i == FirstHeaderLine(raw, lname)
      later == {j \in (i + 1)..Len(raw) : TrimLeft(LineText(raw[j])) # <<>>}
  IN IF i = 0 THEN Undefined
     ELSE IF raw[i].v # <<>> THEN Str(Trim(raw[i].v))
     ELSE IF later = {} THEN Str(<<>>)
     ELSE Str(Trim(LineText(raw[CHOOSE j \in later : \A k \in later : j <= k])))

\* new Date().toUTCString()
NowUTCString == <<"now">>

\* Lines 370-375.
OriginalSubject(raw) ==
  LET m == FirstLineValue(raw, "subject") IN IF m.t = "undef" THEN DefaultSubject ELSE m.s

OriginalFrom(raw) ==
  LET m == FirstLineValue(raw, "from") IN IF m.t = "undef" THEN DefaultFrom ELSE m.s

OriginalDate(raw) ==
  LET m == FirstLineValue(raw, "date") IN IF m.t = "undef" THEN NowUTCString ELSE m.s

\* Lines 614-615.
ReplyTo(raw) ==
  LET m == FirstLineValue(raw, "reply-to") IN IF m.t = "undef" THEN OriginalFrom(raw) ELSE m.s

\* Lines 389-392: the media type of the first Content-Type line of the
\* message, undefined without one.
FwdContentType(raw) ==
  IF FirstHeaderLine(raw, "content-type") = 0 THEN Undefined ELSE Str(ContentTypeOf(raw))

\* The characters that end the value of a parameter: quotes and ";".
IsParamEnd(tok) == tok \in {"\"", "'", ";"}

\* key["']?([^"';\r\n]+)["']? in a token string: the starts of the key that
\* are followed, after at most one quote, by a character of the value.
ParamStarts(s, key) ==
  {i \in 1..(Len(s) - 1) :
     /\ LowerTok(s[i]) = key
     /\ \/ ~IsParamEnd(s[i + 1])
        \/ s[i + 1] \in {"\"", "'"} /\ i + 2 <= Len(s) /\ ~IsParamEnd(s[i + 2])}

\* The value of the parameter that starts at i: up to the next quote, ";"
\* or the end of the line.
ParamAt(s, i) ==
  LET a == IF IsParamEnd(s[i + 1]) THEN i + 2 ELSE i + 1
      z == CHOOSE x \in a..Len(s) :
             /\ \A m \in a..x : ~IsParamEnd(s[m])
             /\ (x = Len(s) \/ IsParamEnd(s[x + 1]))
  IN SubSeq(s, a, z)

\* Lines 394-398: the value, trimmed, of the first boundary= of the whole
\* message, looked for only when the message has a Content-Type line.
FwdBoundary(raw) ==
  LET hits == {i \in 1..Len(raw) : ParamStarts(LineText(raw[i]), "boundary=") # {}}
  IN IF FirstHeaderLine(raw, "content-type") = 0 \/ hits = {} THEN Undefined
     ELSE LET i == CHOOSE x \in hits : \A y \in hits : x <= y
              starts == ParamStarts(LineText(raw[i]), "boundary=")
          IN Str(Trim(ParamAt(LineText(raw[i]), CHOOSE a \in starts : \A b \in starts : a <= b)))

\* Whether the value of a Content-Disposition line reads
\* attachment;\s*filename= and a name.
NamesAttachment(v) ==
  LET w == TrimLeft(v)
      rest == TrimLeft(SubSeq(w, 3, Len(w)))
  IN /\ Len(w) >= 2 /\ LowerTok(w[1]) = "attachment" /\ w[2] = ";"
     /\ 1 \in ParamStarts(rest, "filename=")

\* The name that such a value gives.
AttachmentNameOf(v) ==
  LET w == TrimLeft(v) IN Trim(ParamAt(TrimLeft(SubSeq(w, 3, Len(w))), 1))

RECURSIVE DispositionNames(_)
\* Lines 402-410: the file names of the Content-Disposition lines, in order.
DispositionNames(raw) ==
  IF raw = <<>> THEN <<>>
  ELSE LET line == Head(raw)
       IN (IF line.k = "hdr" /\ LowerTok(line.n) = "content-disposition" /\ NamesAttachment(line.v)
           THEN <<AttachmentNameOf(line.v)>> ELSE <<>>) \o DispositionNames(Tail(raw))

\* Whether a list has the element.
ListHas(list, x) == \E i \in 1..Len(list) : list[i] = x

RECURSIVE TypeNames(_, _)
\* Lines 413-420: the name= of the Content-Type lines, in order, each added
\* when it has a "." and is not in the list yet.  The greedy [^\r\n]+ before
\* name= takes the last name= of the line.
TypeNames(names, raw) ==
  IF raw = <<>> THEN names
  ELSE LET line == Head(raw)
           starts == IF line.k = "hdr" /\ LowerTok(line.n) = "content-type"
                     THEN ParamStarts(line.v, "name=") ELSE {}
           filename == Trim(ParamAt(line.v, CHOOSE a \in starts : \A b \in starts : b <= a))
       IN TypeNames(IF starts # {} /\ Includes(filename, ".") /\ ~ListHas(names, filename)
                    THEN Append(names, filename) ELSE names,
                    Tail(raw))

\* Lines 402-420.
AttachmentNames(raw) == TypeNames(DispositionNames(raw), raw)

RECURSIVE AttachmentLines(_)
\* `\n[ATTACHMENT: ${attachment}]` for each name.
AttachmentLines(names) ==
  IF names = <<>> THEN <<>>
  ELSE <<"\n", "[ATTACHMENT:", " ">> \o Head(names) \o <<"]">> \o AttachmentLines(Tail(names))

\* '\n\n----- Attachments -----' and the lines of the names.
AttachmentInfo(names) == <<"\n", "\n", "----- Attachments -----">> \o AttachmentLines(names)

\* Whether the text of the line starts with "--".
StartsWithDashes(line) ==
  line.k = "delim" \/ (line.k = "text" /\ line.v # <<>> /\ line.v[1] = "--")

\* Line 428, group 1: from the first Content-Type line that reads
\* text/plain, the text after the next empty line up to the line break
\* before the first line that starts with "--" or before an empty line that
\* a Content-Type line follows; undefined when no such line ends it.
SimpleTextMatch(raw) ==
  LET plain == {i \in 1..Len(raw) :
                  /\ raw[i].k = "hdr" /\ LowerTok(raw[i].n) = "content-type"
                  /\ StartsWith(Lower(raw[i].v), <<"text", "/", "plain">>)}
      c == CHOOSE i \in plain : \A j \in plain : i <= j
      blanks == {i \in (c + 1)..(Len(raw) - 1) : raw[i].k = "blank"}
      b == CHOOSE i \in blanks : \A j \in blanks : i <= j
      ends == {j - 1 : j \in {x \in (b + 2)..Len(raw) : StartsWithDashes(raw[x])}}
              \cup {m \in (b + 1)..(Len(raw) - 2) :
                      /\ raw[m + 1].k = "blank"
                      /\ raw[m + 2].k = "hdr" /\ LowerTok(raw[m + 2].n) = "content-type"}
  IN IF plain = {} THEN Undefined
     ELSE IF blanks = {} THEN Undefined
     ELSE IF ends = {} THEN Undefined
     ELSE Str(Flatten(SubSeq(raw, b + 1, CHOOSE e \in ends : \A f \in ends : e <= f)))

CouldNotBeParsed == <<"Original message content could not be parsed.">>

CouldNotBeExtracted == <<"Email content could not be extracted.">>

SeeAttachment == <<"Email content could not be extracted. See attachment for complete message.">>

ContainsHtml == <<"This email contains HTML content. See attachment for complete message.">>

ErrorParsing == <<"Error parsing email content. See attachment for complete message.">>

\* Lines 378-381.
InitialExtraction ==
  [extractedText |-> CouldNotBeParsed, extractedHtml |-> <<>>,
   foundTextPart |-> FALSE, foundHtmlPart |-> FALSE]

\* Lines 426-465: the short cut for the common shapes of a message.
SimpleExtraction(st, raw) ==
  LET textContentMatch == SimpleTextMatch(raw)
      names == AttachmentNames(raw)
      info == IF Len(names) > 0 THEN AttachmentInfo(names) ELSE <<>>
  IN IF Truthy(textContentMatch)
     THEN [st EXCEPT !.extractedText =
                       DecodeText(Trim(textContentMatch.s), EncodingOf(raw, <<"none">>)) \o info,
                     !.foundTextPart = TRUE]
     ELSE IF Len(names) > 0
     THEN [st EXCEPT !.extractedText = CouldNotBeExtracted \o info]
     ELSE st

\* The characters that make `new RegExp` throw a SyntaxError when they
\* stand alone in a pattern.
IsUnbalanced(tok) == tok \in {"(", ")", "["}

\* Whether new RegExp(`--${boundary}`, 'g') returns.
ValidPattern(boundary) == \A i \in 1..Len(boundary) : ~IsUnbalanced(boundary[i])

\* rawEmail.split(/\r?\n\r?\n/, 2)[1]: the lines between the first empty
\* line and the next one.
EmailBody(raw) ==
  LET rest == SubSeq(raw, FirstBlankLine(raw) + 1, Len(raw))
      e == FirstBlankLine(rest)
  IN IF e = 0 THEN rest ELSE SubSeq(rest, 1, e - 1)

\* One turn of the loop over parts (lines 517-571).
FwdPartStep(st, boundary, piece) ==
  LET part == Trim(Flatten(piece))
      lines == LinesOf(part)
      partContentType == ContentTypeOf(lines)
      encoding == EncodingOf(lines, <<"none">>)
      content == Trim(Flatten(EmailBody(lines)))
  IN IF part = <<>> \/ part = <<"--">> \o boundary \o <<"--">> THEN st
     ELSE IF FirstHeaderLine(lines, "content-type") = 0 THEN st
     ELSE IF FirstBlankLine(lines) = 0 THEN st
     ELSE IF partContentType = <<"text", "/", "plain">> /\ ~st.foundTextPart
     THEN [st EXCEPT !.foundTextPart = TRUE, !.extractedText = DecodeText(content, encoding)]
     ELSE IF partContentType = <<"text", "/", "html">> /\ ~st.foundHtmlPart
     THEN [st EXCEPT !.foundHtmlPart = TRUE, !.extractedHtml = DecodeText(content, encoding)]
     ELSE st

RECURSIVE FwdPartLoop(_, _, _)
FwdPartLoop(st, boundary, parts) ==
  IF parts = <<>> THEN st
  ELSE FwdPartLoop(FwdPartStep(st, boundary, Head(parts)), boundary, Tail(parts))

\* The body of the try block (lines 489-577).  The pattern is built only
\* when the message has an empty line; the second split (with the line
\* break before the delimiter) finds delimiters only where the first does.
MultipartBody(st, raw, boundary) ==
  IF FirstBlankLine(raw) = 0 THEN Ok(st)
  ELSE IF ~ValidPattern(boundary) THEN Throw("SyntaxError")
  ELSE Ok(FwdPartLoop(st, boundary, SplitOnBoundary(EmailBody(raw), boundary)))

\* Lines 488-581 without the try and its catch.
TryMultipart_NoCatch(st, raw, boundary) == MultipartBody(st, raw, boundary)

\* Lines 488-581: try { ... } catch { extractedText = 'Error parsing ...' }
TryMultipart(st, raw, boundary) ==
  LET r == MultipartBody(st, raw, boundary)
  IN IF r.t = "throw" THEN Ok([st EXCEPT !.extractedText = ErrorParsing]) ELSE r

\* Lines 583-589.
CheckFound(st) ==
  IF st.extractedText = CouldNotBeParsed /\ st.extractedHtml = <<>>
  THEN [st EXCEPT !.extractedText = SeeAttachment] ELSE st

\* Lines 467-591.
ContentTypeBranches(st, raw) ==
  LET contentType == FwdContentType(raw)
      boundary == FwdBoundary(raw)
      body == BodyAfterBlank(raw)
  IN IF ~Truthy(contentType) THEN Ok(st)
     ELSE IF StartsWith(contentType.s, <<"text", "/", "plain">>) /\ ~st.foundTextPart
     THEN Ok(IF Truthy(body) THEN [st EXCEPT !.extractedText = Trim(body.s)] ELSE st)
     ELSE IF StartsWith(contentType.s, <<"text", "/", "html">>)
     THEN Ok(IF Truthy(body)
             THEN [st EXCEPT !.extractedHtml = Trim(body.s), !.extractedText = ContainsHtml]
             ELSE st)
     ELSE IF StartsWith(contentType.s, <<"multipart", "/">>) /\ Truthy(boundary)
     THEN LET r == TryMultipart(st, raw, boundary.s)
          IN IF r.t = "throw" THEN r ELSE Ok(CheckFound(r.v))
     ELSE Ok(st)

\* ---------------------------------------- formatRawForwardedEmail: output

\* Math.random().toString(36).substr(2, 9): up to nine digits in base 36
\* (one digit, "i", for 0.5), none at all when the number drawn is 0.
RandomSuffixes == { <<>>, <<"k3x9q2m1a">>, <<"i">> }

\* Lines 607-608, for the digits drawn.
NewBoundaryOf(digits) == <<"----=_ForwardBoundary_">> \o digits

AltBoundaryOf(digits) == <<"----=_AltBoundary_">> \o digits

\* The lines of `${rawEmail}`: the message itself, one empty line for the
\* empty message.
RawLines(raw) == IF raw = <<>> THEN <<Blank>> ELSE raw

Utf8Plain == <<"text", "/", "plain", ";", " ", "charset=", "UTF-8">>

Utf8Html == <<"text", "/", "html", ";", " ", "charset=", "UTF-8">>

\* Lines 618-627.
MainHeaders(raw, originalRecipient, forwardTo, newBoundary) ==
  << Hdr("From", originalRecipient),
     Hdr("To", forwardTo),
     Hdr("Reply-To", ReplyTo(raw)),
     Hdr("Subject", <<"Fwd:", " ">> \o OriginalSubject(raw)),
     Hdr("MIME-Version", <<"1.0">>),
     Hdr("Content-Type", <<"multipart", "/", "mixed">> \o BoundaryParam(newBoundary)),
     Blank,
     Delim(newBoundary) >>

\* Lines 639-647 and 674-682: the banner, the text preview and the note.
PlainPreview(raw, originalRecipient, extractedText) ==
  << Hdr("Content-Type", Utf8Plain),
     Hdr("Content-Transfer-Encoding", <<"7bit">>),
     Blank,
     Text(<<"---------- Forwarded message ---------">>),
     Hdr("From", OriginalFrom(raw)),
     Hdr("Date", OriginalDate(raw)),
     Hdr("Subject", OriginalSubject(raw)),
     Hdr("To", originalRecipient),
     Blank >>
  \o LinesOf(extractedText)
  \o << Blank, Text(<<"Note: The complete original message is attached for reference.">>) >>

\* Lines 650-665.
HtmlPreview(raw, originalRecipient, extractedHtml) ==
  << Hdr("Content-Type", Utf8Html),
     Hdr("Content-Transfer-Encoding", <<"7bit">>),
     Blank,
     Text(<<"<div style=\"border-top:1px solid #ccc; margin-top:20px; padding-top:10px;\">">>),
     Cont(<<" ", "<p><b>---------- Forwarded message ---------</b><br>">>),
     Cont(<<" ", "<b>From:</b>", " ">> \o OriginalFrom(raw) \o <<"<br>">>),
     Cont(<<" ", "<b>Date:</b>", " ">> \o OriginalDate(raw) \o <<"<br>">>),
     Cont(<<" ", "<b>Subject:</b>", " ">> \o OriginalSubject(raw) \o <<"<br>">>),
     Cont(<<" ", "<b>To:</b>", " ">> \o originalRecipient \o <<"</p>">>),
     Text(<<"</div>">>),
     Blank >>
  \o LinesOf(extractedHtml)
  \o << Blank,
        Text(<<"<p style=\"color: #555; font-style: italic; margin-top: 20px; border-top: 1px solid #eee; padding-top: 10px;\">">>),
        Cont(<<" ", "Note: The complete original message is attached for reference.">>),
        Text(<<"</p>">>) >>

\* Lines 630-683: the part with the preview.
ContentPart(raw, originalRecipient, st, altBoundary) ==
  IF Len(st.extractedHtml) > 0
  THEN << Hdr("Content-Type", <<"multipart", "/", "alternative">> \o BoundaryParam(altBoundary)),
          Blank,
          Delim(altBoundary) >>
       \o PlainPreview(raw, originalRecipient, st.extractedText)
       \o << Blank, Delim(altBoundary) >>
       \o HtmlPreview(raw, originalRecipient, st.extractedHtml)
       \o << Blank, DelimClose(altBoundary) >>
  ELSE PlainPreview(raw, originalRecipient, st.extractedText)

Rfc822 == <<"message", "/", "rfc822">>

OriginalMessageEml ==
  <<"attachment", ";", " ", "filename=", "\"", "original_message", ".", "eml", "\"">>

\* Lines 685-694: the original as an attachment.
OriginalPart(raw, newBoundary) ==
  << Blank,
     Delim(newBoundary),
     Hdr("Content-Type", Rfc822),
     Hdr("Content-Disposition", OriginalMessageEml),
     Blank >>
  \o RawLines(raw)
  \o << Blank, DelimClose(newBoundary) >>

\* Lines 364-697, for the digits that the two calls of Math.random give.
formatRawForwardedEmail(raw, originalRecipient, forwardTo, digits1, digits2) ==
  LET r == ContentTypeBranches(SimpleExtraction(InitialExtraction, raw), raw)
      newBoundary == NewBoundaryOf(digits1)
      altBoundary == AltBoundaryOf(digits2)
  IN IF r.t = "throw" THEN r
     ELSE Ok(MainHeaders(raw, originalRecipient, forwardTo, newBoundary)
             \o ContentPart(raw, originalRecipient, r.v, altBoundary)
             \o OriginalPart(raw, newBoundary))

\* ---------------------------------------------- inputs of the forward run

Dest == <<"dest", "@", "example", ".", "net">>

ReportPdf == <<"report", ".", "pdf">>

FwdSubjectLines ==
  { <<>>,
    <<Hdr("Subject", <<"Hello">>)>>,
    <<Hdr("Subject", <<>>)>> }

FwdFromLines ==
  { <<>>,
    <<Hdr("From", Alice)>>,
    <<Hdr("From", Alice), Hdr("Reply-To", Bob)>> }

FwdDateLines == { <<>>, <<Hdr("Date", ValidDate)>> }

\* What follows the other headers.  A message without an empty line; plain
\* text; a body with lines that read like a Subject and a Reply-To header;
\* text/plain with and without a signature line; HTML; multipart messages
\* (alternative;
\* mixed with base64 text and a named attachment; one whose boundary is no
\* valid pattern); a PDF with a name; and bodies that hold a line made of
\* "--" and a boundary of the shape that the forwarder generates, as a
\* message that was forwarded once already does; and a message that is a
\* single text attachment.
FwdBodies ==
  { <<>>,
    <<Blank, Text(<<"Hello", " ", "there">>)>>,
    <<Blank, Hdr("Subject", <<"Spoofed">>), Hdr("Reply-To", Bob), Text(<<"Bye">>)>>,
    <<Hdr("Content-Type", TextPlain \o Charset), Blank, Text(<<"Hello">>), Blank, Text(<<"Bye">>)>>,
    <<Hdr("Content-Type", TextPlain), Hdr("Content-Transfer-Encoding", <<"quoted-printable">>),
      Blank, Text(<<"a", "=", "3", "D", "b">>), Text(<<"--">>), Text(<<"Bob">>)>>,
    <<Hdr("Content-Type", TextHtml), Blank, Text(<<"<b>", "Hi", "</b>">>)>>,
    <<Hdr("Content-Type", <<"multipart", "/", "alternative">> \o BoundaryParam(<<"b1">>)), Blank,
      Delim(<<"b1">>), Hdr("Content-Type", TextPlain \o Charset), Blank, Text(<<"Hello">>), Blank,
      Delim(<<"b1">>), Hdr("Content-Type", TextHtml), Blank, Text(<<"<b>", "Hi", "</b>">>), Blank,
      DelimClose(<<"b1">>)>>,
    <<Hdr("Content-Type", <<"multipart", "/", "mixed">> \o <<";", " ", "boundary=", "b1">>), Blank,
      Delim(<<"b1">>), Hdr("Content-Type", TextPlain),
      Hdr("Content-Transfer-Encoding", <<"base64">>), Blank, Text(<<"SGVsbG8">>),
      Delim(<<"b1">>), Hdr("Content-Type", <<"application", "/", "pdf">>),
      Hdr("Content-Disposition", <<"attachment", ";", " ", "filename=", "\"">> \o ReportPdf \o <<"\"">>),
      Hdr("Content-Transfer-Encoding", <<"base64">>), Blank, Text(<<"SGVsbG8">>),
      DelimClose(<<"b1">>)>>,
    <<Hdr("Content-Type", <<"multipart", "/", "mixed">> \o BoundaryParam(<<"b", "(", "1">>)), Blank,
      Delim(<<"b", "(", "1">>), Hdr("Content-Type", TextPlain), Blank, Text(<<"Hello">>),
      DelimClose(<<"b", "(", "1">>)>>,
    <<Hdr("Content-Type", <<"application", "/", "pdf", ";", " ", "name=", "\"">> \o ReportPdf \o <<"\"">>),
      Hdr("Content-Transfer-Encoding", <<"base64">>), Blank, Text(<<"SGVsbG8">>)>>,
    <<Blank, Text(<<"Hello">>), Blank, Delim(NewBoundaryOf(<<"k3x9q2m1a">>)),
      Hdr("Content-Type", Rfc822), Blank, Hdr("Subject", <<"Older">>), Blank, Text(<<"Bye">>), Blank,
      DelimClose(NewBoundaryOf(<<"k3x9q2m1a">>))>>,
    <<Hdr("Content-Type", TextHtml), Blank, Text(<<"<b>", "Hi", "</b>">>),
      Delim(AltBoundaryOf(<<"i">>)), Text(<<"Bye">>)>>,
    <<Hdr("Content-Type", TextPlain \o <<";", " ", "name=", "\"", "notes", ".", "txt", "\"">>),
      Hdr("Content-Disposition",
          <<"attachment", ";", " ", "filename=", "\"", "notes", ".", "txt", "\"">>),
      Blank, Text(<<"Hello">>)>> }

FwdMessages ==
  { u \o f \o d \o b :
      u \in FwdSubjectLines, f \in FwdFromLines, d \in FwdDateLines, b \in FwdBodies }

InitFwd ==
  /\ pc = "call"
  /\ fn = "formatRawForwardedEmail"
  /\ args \in [rawEmail : FwdMessages, originalRecipient : {Info, Hint}, forwardTo : {Dest, Bob}]
  /\ ret = Undefined

\* The call, with the two numbers that Math.random returns.
CallFormat ==
  /\ pc = "call"
  /\ fn = "formatRawForwardedEmail"
  /\ \E digits1 \in RandomSuffixes, digits2 \in RandomSuffixes :
       ret' = formatRawForwardedEmail(args.rawEmail, args.originalRecipient, args.forwardTo,
                                      digits1, digits2)
  /\ pc' = "done"
  /\ UNCHANGED <<fn, args>>

NextFwd == CallFormat

SpecFwd == InitFwd /\ [][NextFwd]_vars

\* -------------------------------------- claims on formatRawForwardedEmail

\* The call of formatRawForwardedEmail has returned or thrown.
FwdDone == fn = "formatRawForwardedEmail" /\ pc = "done"

\* The boundary that a Content-Type line names.
BoundaryOfLine(line) ==
  QuotedAt(line.v, CHOOSE i \in QuotedStarts(line.v, "boundary=") : TRUE)

\* The outer boundary of a message: that of its first Content-Type line.
OuterBoundary(out) == BoundaryOfLine(out[FirstHeaderLine(out, "content-type")])

\* Whether the first part of the wrapping message is a multipart/alternative.
UsesAlternative(out) ==
  /\ out[9].k = "hdr" /\ out[9].n = "Content-Type"
  /\ StartsWith(out[9].v, <<"multipart", "/", "alternative">>)

\* Whether the text occurs in a line of the message.
OccursIn(text, raw) == \E i \in 1..Len(raw) : IncludesStr(LineText(raw[i]), text)

\* Whether a piece of a message split on its boundary is a message/rfc822
\* part.
IsRfc822Part(part) ==
  FirstHeaderLine(part, "content-type") # 0 /\ ContentTypeOf(part) = Rfc822

\* The payload of such a piece: what stands between the empty line after the
\* part's headers and the line break before the next delimiter.  The
\* builder writes one more line break after the original than a delimiter
\* needs; the payload is taken without it.
PayloadOf(part) == SubSeq(part, FirstBlankLine(part) + 1, Len(part) - 2)

\* C1: split on its outer boundary, the returned message has exactly one
\* message/rfc822 part, and the payload of that part is the original,
\* nothing added, removed or altered.
C1_OriginalIsTheOnlyRfc822Part ==
  (FwdDone /\ ret.t = "ok") =>
    LET parts == SplitOnBoundary(ret.v, OuterBoundary(ret.v))
        rfc == {i \in 1..Len(parts) : IsRfc822Part(parts[i])}
    IN /\ Cardinality(rfc) = 1
       /\ \A i \in rfc : PayloadOf(parts[i]) = RawLines(args.rawEmail)

\* C2: neither of the two boundaries that the returned message uses occurs
\* anywhere in the original.
C2_BoundariesNotInOriginal ==
  (FwdDone /\ ret.t = "ok") =>
    /\ ~OccursIn(OuterBoundary(ret.v), args.rawEmail)
    /\ UsesAlternative(ret.v) => ~OccursIn(BoundaryOfLine(ret.v[9]), args.rawEmail)

\* C3: the Subject header of the returned message is "Fwd: " and the value
\* of the Subject header of the original's header block, "No Subject" when
\* that block has no Subject header; the original's body has no part in it.
C3_SubjectFromHeaderBlock ==
  (FwdDone /\ ret.t = "ok") =>
    LET values == HeaderValues(args.rawEmail, "subject")
        expected == IF values \ {<<>>} # {} THEN values \ {<<>>}
                    ELSE values \cup {DefaultSubject}
    IN /\ ret.v[4].n = "Subject"
       /\ \E v \in expected : ret.v[4].v = <<"Fwd:", " ">> \o v

\* Whether the extraction of the preview fails: the message is a multipart
\* with an empty line and a boundary that is no valid pattern.
PreviewFails(raw) ==
  /\ Truthy(FwdContentType(raw)) /\ StartsWith(FwdContentType(raw).s, <<"multipart", "/">>)
  /\ Truthy(FwdBoundary(raw)) /\ ~ValidPattern(FwdBoundary(raw).s)
  /\ FirstBlankLine(raw) # 0

\* The text preview of a returned message: what stands between the banner
\* and the note of its plain-text part.
TextPreviewOf(out) ==
  LET banner == CHOOSE i \in 1..Len(out) :
                  /\ out[i] = Text(<<"---------- Forwarded message ---------">>)
                  /\ \A j \in 1..(i - 1) : out[j] # out[i]
      note == CHOOSE i \in (banner + 1)..Len(out) :
                /\ out[i] = Text(<<"Note: The complete original message is attached for reference.">>)
                /\ \A j \in (banner + 1)..(i - 1) : out[j] # out[i]
  IN Flatten(SubSeq(out, banner + 6, note - 2))

\* Whether the message holds a message/rfc822 attachment with the original
\* in it.
HoldsOriginal(out, raw) ==
  \E i \in 1..(Len(out) - 2 - Len(RawLines(raw))) :
    /\ out[i] = Hdr("Content-Type", Rfc822)
    /\ out[i + 1] = Hdr("Content-Disposition", OriginalMessageEml)
    /\ out[i + 2] = Blank
    /\ SubSeq(out, i + 3, i + 2 + Len(RawLines(raw))) = RawLines(raw)

\* C5: formatRawForwardedEmail never raises: when the extraction of the
\* preview fails, the fixed text 'Error parsing email content. See
\* attachment for complete message.' is the text preview, and the returned
\* message still has the message/rfc822 part with the original.
C5_FormatNeverRaises ==
  FwdDone =>
    /\ ret.t = "ok"
    /\ PreviewFails(args.rawEmail) => TextPreviewOf(ret.v) = ErrorParsing
    /\ HoldsOriginal(ret.v, args.rawEmail)

\* A multipart message whose boundary is no valid pattern has been
\* forwarded: the result is a message with the fixed text for its preview.
C5_Witness ==
  /\ FwdDone
  /\ PreviewFails(args.rawEmail)
  /\ ret.t = "ok"
  /\ TextPreviewOf(ret.v) = ErrorParsing
  /\ HoldsOriginal(ret.v, args.rawEmail)

\* C15: the returned message begins with From, the original recipient, To,
\* the forwarding address, and Reply-To, which repeats the Reply-To header
\* of the original's header block, or without one the From header of that
\* block (the default sender when the block has neither); a message
\* without an empty line is all header block.
C15_FromToReplyTo ==
  (FwdDone /\ ret.t = "ok") =>
    LET raw == args.rawEmail
        block == IF FirstBlankLine(raw) = 0 THEN raw ELSE HeaderLines(raw)
        Values(lname) == { Trim(block[i].v) :
                             i \in {x \in 1..Len(block) :
                                      block[x].k = "hdr" /\ LowerTok(block[x].n) = lname} }
        expected == IF Values("reply-to") # {} THEN Values("reply-to")
                    ELSE IF Values("from") # {} THEN Values("from")
                    ELSE {DefaultFrom}
    IN /\ ret.v[1] = Hdr("From", args.originalRecipient)
       /\ ret.v[2] = Hdr("To", args.forwardTo)
       /\ ret.v[3].k = "hdr" /\ ret.v[3].n = "Reply-To"
       /\ ret.v[3].v \in expected

RECURSIVE SeqToSet(_)
\* The elements of a list.
SeqToSet(s) == IF s = <<>> THEN {} ELSE {Head(s)} \cup SeqToSet(Tail(s))

\* C16: for every attachment file name that formatRawForwardedEmail finds
\* in the original, the text preview of the returned message has the line
\* "[ATTACHMENT: name]".
C16_PreviewListsAttachments ==
  (FwdDone /\ ret.t = "ok") =>
    \A name \in SeqToSet(AttachmentNames(args.rawEmail)) :
      IncludesStr(TextPreviewOf(ret.v), <<"\n", "[ATTACHMENT:", " ">> \o name \o <<"]">>)

\* ------------------------------------------------------ formatForwardedEmail

\* Date.prototype.toISOString() of a valid date.
ToISOString(date) ==
  IF date.time = ValidDate THEN <<"2023-01-01T12:00:00.000Z">> ELSE <<"now-iso">>

\* 'No text content available.'
NoTextContent == <<"No", " ", "text", " ", "content", " ", "available.">>

\* Lines 36-43 of the handler module: the banner of the text body.
TextBanner(originalEmail, originalRecipient) ==
  <<"\n", "---------- Forwarded Message ----------", "\n", "From: ">> \o originalEmail.from
  \o <<"\n", "Date: ">> \o ToISOString(originalEmail.date)
  \o <<"\n", "Subject: ">> \o originalEmail.subject
  \o <<"\n", "To: ">> \o originalRecipient \o <<"\n", "\n">>

\* Lines 51-61 of the handler module: the HTML body around the original's.
HtmlFrame(originalEmail, originalRecipient) ==
  <<"\n", "<div style=\"border:1px solid #ccc; padding:10px; margin:10px 0;\">", "\n",
    "  <div style=\"border-bottom:1px solid #ccc; padding-bottom:5px; margin-bottom:10px; color:#666;\">",
    "\n", "    <strong>Forwarded Message</strong><br>", "\n", "    <strong>From:</strong> ">>
  \o originalEmail.from
  \o <<"<br>", "\n", "    <strong>Date:</strong> ">> \o ToISOString(originalEmail.date)
  \o <<"<br>", "\n", "    <strong>Subject:</strong> ">> \o originalEmail.subject
  \o <<"<br>", "\n", "    <strong>To:</strong> ">> \o originalRecipient
  \o <<"<br>", "\n", "  </div>", "\n", "  ">> \o originalEmail.htmlBody.s
  \o <<"\n", "</div>", "\n">>

\* A mutated builder that frames the HTML body whenever the original has
\* the field, empty or not.
formatForwardedEmail_HtmlWhenDefined(originalEmail, originalRecipient, forwardTo) ==
  [subject |-> <<"Fwd: ">> \o originalEmail.subject,
   textBody |-> Str(TextBanner(originalEmail, originalRecipient)
                    \o Or(originalEmail.textBody, Str(NoTextContent)).s \o <<"\n">>),
   htmlBody |-> IF originalEmail.htmlBody.t = "str"
                THEN Str(HtmlFrame(originalEmail, originalRecipient)) ELSE Undefined]

\* Lines 23-68 of the handler module.
formatForwardedEmail(originalEmail, originalRecipient, forwardTo) ==
  [subject |-> <<"Fwd: ">> \o originalEmail.subject,
   textBody |-> Str(TextBanner(originalEmail, originalRecipient)
                    \o Or(originalEmail.textBody, Str(NoTextContent)).s \o <<"\n">>),
   htmlBody |-> IF Truthy(originalEmail.htmlBody)
                THEN Str(HtmlFrame(originalEmail, originalRecipient)) ELSE Undefined]

\* The originals: from and subject empty or not, each body absent, empty or
\* present, and a date that is valid, as the handler hands it over (lines
\* 262-273 of the handler module replace an invalid date by the current time).
Originals ==
  [from : {<<>>, Alice},
   subject : {<<>>, <<"Test", " ", "Subject">>},
   textBody : {Undefined, Str(<<>>), Str(<<"This", " ", "is", " ", "a", " ", "test.">>)},
   htmlBody : {Undefined, Str(<<>>), Str(<<"<div>", "This", " ", "is", " ", "a", " ", "test.", "</div>">>)},
   date : {Now, NewDate(ValidDate)}]

InitStruct ==
  /\ pc = "call"
  /\ fn = "formatForwardedEmail"
  /\ args \in [originalEmail : Originals, originalRecipient : {Info, Hint}, forwardTo : {Dest}]
  /\ ret = Undefined

CallStruct ==
  /\ pc = "call"
  /\ fn = "formatForwardedEmail"
  /\ ret' = formatForwardedEmail(args.originalEmail, args.originalRecipient, args.forwardTo)
  /\ pc' = "done"
  /\ UNCHANGED <<fn, args>>

NextStruct == CallStruct

SpecStruct == InitStruct /\ [][NextStruct]_vars

\* ---------------------------------------------- claims on formatForwardedEmail

\* The text that follows the first occurrence of p in s; s itself when p
\* does not occur.
AfterFirst(s, p) ==
  LET hits == {i \in 1..(Len(s) - Len(p) + 1) : SubSeq(s, i, i + Len(p) - 1) = p}
  IN IF hits = {} THEN s
     ELSE SubSeq(s, (CHOOSE i \in hits : \A j \in hits : i <= j) + Len(p), Len(s))

\* C14: formatForwardedEmail returns the subject "Fwd: " and the original
\* subject; a text body in which a From line with the original sender, a
\* Subject line with the original subject and a To line with the original
\* recipient come in this order, followed after an empty line by the
\* original text body, or by the placeholder when the original has none or
\* an empty one; and an HTML body exactly when the original has a non-empty
\* one, which it then contains.
C14_StructuredForward ==
  fn = "formatForwardedEmail" /\ pc = "done" =>
    LET o == args.originalEmail
        afterFrom == AfterFirst(ret.textBody.s, <<"\n", "From: ">> \o o.from \o <<"\n">>)
        afterSubject == AfterFirst(afterFrom, <<"Subject: ">> \o o.subject \o <<"\n">>)
        afterTo == AfterFirst(afterSubject, <<"To: ">> \o args.originalRecipient \o <<"\n", "\n">>)
    IN /\ ret.subject = <<"Fwd: ">> \o o.subject
       /\ Len(afterTo) < Len(afterSubject)
       /\ Len(afterSubject) < Len(afterFrom)
       /\ Len(afterFrom) < Len(ret.textBody.s)
       /\ afterTo = (IF Truthy(o.textBody) THEN o.textBody.s ELSE NoTextContent) \o <<"\n">>
       /\ ret.htmlBody # Undefined <=> Truthy(o.htmlBody)
       /\ ret.htmlBody # Undefined => IncludesStr(ret.htmlBody.s, o.htmlBody.s)

\* The builder has returned for an original whose HTML body is the empty
\* string and whose text body is absent.
C14_Witness ==
  /\ fn = "formatForwardedEmail"
  /\ pc = "done"
  /\ args.originalEmail.htmlBody = Str(<<>>)
  /\ args.originalEmail.textBody = Undefined
  /\ ret.htmlBody = Undefined
  /\ IncludesStr(ret.textBody.s, NoTextContent)

\* ------------------------------------------------- findForwardingDestination

\* mapping[key]: the entry of the mapping object, undefined when the object
\* has no such key.  The mapping is the dictionary parsed from the JSON
\* parameter; its keys are the address patterns it lists.
Lookup(mapping, key) ==
  IF key \in DOMAIN mapping THEN mapping[key] ELSE Undefined

\* Array.isArray(destination) ? destination[0] : destination
FirstDestination(destination) ==
  IF IsArray(destination) THEN ArrAt(destination.a, 0) ELSE destination

\* recipient.split('@')[1]
RecipientDomain(recipient) ==
  LET parts == Split(recipient, "@")
  IN IF Len(parts) >= 2 THEN Str(parts[2]) ELSE Undefined

\* `*@${recipientDomain}`
WildcardDomain(domain) == <<"*", "@">> \o domain

\* recipientDomain.split('.').slice(-2).join('.')
BaseDomain(domain) == Join(SliceLast2(Split(domain, ".")), ".")

\* `*@*.${baseDomain}`
SubdomainWildcard(domain) == <<"*", "@", "*", ".">> \o BaseDomain(domain)

CatchAll == <<"*">>

\* findForwardingDestination with the catch-all tried before the wildcards.
findForwardingDestination_CatchAllFirst(recipient, mapping) ==
  IF Truthy(Lookup(mapping, recipient))
  THEN FirstDestination(Lookup(mapping, recipient))
  ELSE LET recipientDomain == RecipientDomain(recipient)
       IN IF ~Truthy(recipientDomain) THEN Undefined
          ELSE IF Truthy(Lookup(mapping, CatchAll))
          THEN FirstDestination(Lookup(mapping, CatchAll))
          ELSE IF Truthy(Lookup(mapping, WildcardDomain(recipientDomain.s)))
          THEN FirstDestination(Lookup(mapping, WildcardDomain(recipientDomain.s)))
          ELSE IF /\ Includes(recipientDomain.s, ".")
                  /\ Truthy(Lookup(mapping, SubdomainWildcard(recipientDomain.s)))
          THEN FirstDestination(Lookup(mapping, SubdomainWildcard(recipientDomain.s)))
          ELSE Undefined

\* findForwardingDestination without the early return for a recipient that
\* has no domain: such a recipient falls through to the catch-all.
findForwardingDestination_NoDomainCheck(recipient, mapping) ==
  IF Truthy(Lookup(mapping, recipient))
  THEN FirstDestination(Lookup(mapping, recipient))
  ELSE LET recipientDomain == RecipientDomain(recipient)
       IN IF /\ Truthy(recipientDomain)
             /\ Truthy(Lookup(mapping, WildcardDomain(recipientDomain.s)))
          THEN FirstDestination(Lookup(mapping, WildcardDomain(recipientDomain.s)))
          ELSE IF /\ Truthy(recipientDomain)
                  /\ Includes(recipientDomain.s, ".")
                  /\ Truthy(Lookup(mapping, SubdomainWildcard(recipientDomain.s)))
          THEN FirstDestination(Lookup(mapping, SubdomainWildcard(recipientDomain.s)))
          ELSE IF Truthy(Lookup(mapping, CatchAll))
          THEN FirstDestination(Lookup(mapping, CatchAll))
          ELSE Undefined

findForwardingDestination(recipient, mapping) ==
  IF Truthy(Lookup(mapping, recipient))
  THEN FirstDestination(Lookup(mapping, recipient))
  ELSE LET recipientDomain == RecipientDomain(recipient)
       IN IF ~Truthy(recipientDomain) THEN Undefined
          ELSE IF Truthy(Lookup(mapping, WildcardDomain(recipientDomain.s)))
          THEN FirstDestination(Lookup(mapping, WildcardDomain(recipientDomain.s)))
          ELSE IF /\ Includes(recipientDomain.s, ".")
                  /\ Truthy(Lookup(mapping, SubdomainWildcard(recipientDomain.s)))
          THEN FirstDestination(Lookup(mapping, SubdomainWildcard(recipientDomain.s)))
          ELSE IF Truthy(Lookup(mapping, CatchAll))
          THEN FirstDestination(Lookup(mapping, CatchAll))
          ELSE Undefined

\* ------------------------------------------------ inputs of the mapping run

\* Recipients: well-formed ones at a base domain, at a subdomain, at a
\* dotless host and at a foreign domain, and malformed ones (no "@", nothing
\* after "@", two "@").
Recipients ==
  { <<"info", "@", "example", ".", "com">>,
    <<"other", "@", "example", ".", "com">>,
    <<"info", "@", "sub", ".", "example", ".", "com">>,
    <<"info", "@", "other", ".", "org">>,
    <<"info", "@", "localhost">>,
    <<"invalid">>,
    <<"info", "@">>,
    <<"info", "@", "example", ".", "com", "@", "x">> }

\* The keys a mapping may list.
MappingKeys ==
  { <<"info", "@", "example", ".", "com">>,
    <<"*", "@", "example", ".", "com">>,
    <<"*", "@", "*", ".", "example", ".", "com">>,
    <<"*", "@", "*", ".", "localhost">>,
    <<"*">>,
    <<"invalid">> }

\* The shapes of a mapping entry: a destination string, the empty string, or
\* a list of 0..MaxDests destinations.
EntryKinds == {<<"str", 1>>, <<"empty", 0>>} \cup {<<"list", n>> : n \in 0..MaxDests}

\* The i-th destination configured under key: an address of its own, so that
\* the result tells which entry was chosen.
DestOf(key, i) == <<"dest", ToString(i)>> \o key

EntryValue(key, kind) ==
  CASE kind[1] = "str" -> Str(DestOf(key, 1))
    [] kind[1] = "empty" -> Str(<<>>)
    [] OTHER -> Arr([i \in 1..kind[2] |-> DestOf(key, i)])

Mappings ==
  UNION { { [k \in ks |-> EntryValue(k, kinds[k])] : kinds \in [ks -> EntryKinds] }
          : ks \in {x \in SUBSET MappingKeys : Cardinality(x) <= MaxEntries} }

InitMap ==
  /\ pc = "call"
  /\ fn = "findForwardingDestination"
  /\ args \in [recipient : Recipients, mapping : Mappings]
  /\ ret = Undefined

CallFind ==
  /\ pc = "call"
  /\ fn = "findForwardingDestination"
  /\ ret' = findForwardingDestination(args.recipient, args.mapping)
  /\ pc' = "done"
  /\ UNCHANGED <<fn, args>>

NextMap == CallFind

SpecMap == InitMap /\ [][NextMap]_vars

\* --------------------------------------------- claims on the mapping lookup

\* The text after the first "@" of r, up to a further "@"; <<>> when r has
\* no "@" or nothing follows it.
DomainPart(r) ==
  IF \E i \in 1..Len(r) : r[i] = "@"
  THEN LET i == CHOOSE j \in 1..Len(r) :
                  r[j] = "@" /\ \A k \in 1..(j - 1) : r[k] # "@"
           rest == SubSeq(r, i + 1, Len(r))
       IN IF \E j \in 1..Len(rest) : rest[j] = "@"
          THEN SubSeq(rest, 1, (CHOOSE j \in 1..Len(rest) :
                  rest[j] = "@" /\ \A k \in 1..(j - 1) : rest[k] # "@") - 1)
          ELSE rest
  ELSE <<>>

\* The last two labels of a domain.
LastTwoLabels(d) ==
  LET dots == {i \in 1..Len(d) : d[i] = "."}
  IN IF Cardinality(dots) <= 1 THEN d
     ELSE LET last == CHOOSE i \in dots : \A j \in dots : j <= i
              prev == CHOOSE i \in dots \ {last} : \A j \in dots \ {last} : j <= i
          IN SubSeq(d, prev + 1, Len(d))

\* The keys the precedence names, highest priority first, as C6 lists them.
PrecedenceKeys(r) ==
  <<r>>
  \o (IF DomainPart(r) # <<>>
      THEN << <<"*", "@">> \o DomainPart(r),
              <<"*", "@", "*", ".">> \o LastTwoLabels(DomainPart(r)) >>
      ELSE <<>>)
  \o << <<"*">> >>

\* The destination an entry stands for: itself, or the first element of a
\* list (none for an empty list).
DestinationOfEntry(v) ==
  IF v.t = "arr" THEN (IF Len(v.a) >= 1 THEN Str(v.a[1]) ELSE Undefined) ELSE v

\* The result C6 describes, with Usable(i) saying whether the i-th key of the
\* precedence counts.
FirstByPrecedence(keys, mapping, Usable(_)) ==
  LET hits == {i \in 1..Len(keys) : Usable(i)}
  IN IF hits = {} THEN Undefined
     ELSE DestinationOfEntry(mapping[keys[CHOOSE i \in hits : \A j \in hits : i <= j]])

C7_NoDomainGivesUndefined ==
  (/\ pc = "done"
   /\ DomainPart(args.recipient) = <<>>
   /\ args.recipient \notin DOMAIN args.mapping) => ret = Undefined

\* Witness of C7: "invalid" looked up in a mapping with a usable catch-all.
C7_Witness ==
  /\ pc = "done"
  /\ args.recipient = <<"invalid">>
  /\ <<"invalid">> \notin DOMAIN args.mapping
  /\ <<"*">> \in DOMAIN args.mapping
  /\ args.mapping[<<"*">>] = Str(DestOf(<<"*">>, 1))
  /\ ret = Undefined

\* C29: the entry *@*.<base> is for the subdomains of <base> only: a
\* recipient at <base> itself, the mapping having no entry for the
\* recipient and none for *@<base>, gets the destination of the catch-all
\* or undefined, never the destination of *@*.<base>.
C29_SubdomainWildcardStrict ==
  (/\ fn = "findForwardingDestination"
   /\ pc = "done"
   /\ DomainPart(args.recipient) # <<>>
   /\ LastTwoLabels(DomainPart(args.recipient)) = DomainPart(args.recipient)
   /\ args.recipient \notin DOMAIN args.mapping
   /\ (<<"*", "@">> \o DomainPart(args.recipient)) \notin DOMAIN args.mapping) =>
    \/ ret = Undefined
    \/ /\ CatchAll \in DOMAIN args.mapping
       /\ ret = DestinationOfEntry(args.mapping[CatchAll])

\* ----------------------------------------------- handler: the forwarding tasks

\* JSON.parse of a parameter value that reads null.
Null == [t |-> "null"]

\* findForwardingDestination(recipient, emailMapping) as the handler calls it
\* (line 306 of the handler module): for a mapping that is null the first
\* lookup, mapping[recipient] (mappingUtils.ts line 22), throws a TypeError.
FindDestination(recipient, emailMapping) ==
  IF emailMapping = Null THEN Throw("TypeError")
  ELSE Ok(findForwardingDestination(recipient, emailMapping))

\* Lines 276-285 of the handler module, for an object of S3 that is empty:
\* no header is found in it.
EmailContentOf(rawEmail, recipients) ==
  [rawEmail |-> Str(Flatten(rawEmail)), from |-> <<>>, to |-> recipients, subject |-> <<>>,
   textBody |-> Str(<<>>), htmlBody |-> Str(<<>>), headers |-> <<>>, date |-> Now]

\* A mutated raw request that is sent in the name of the destination.
RawRequest_SourceForwardTo(formattedRawEmail, recipient, forwardTo) ==
  IF formattedRawEmail.t = "throw" THEN formattedRawEmail
  ELSE Ok([command |-> "SendRawEmail", Source |-> forwardTo, Destinations |-> <<forwardTo>>])

\* Lines 328-343 of the handler module: the raw request, or what formatting
\* the raw message threw.
RawRequest(formattedRawEmail, recipient, forwardTo) ==
  IF formattedRawEmail.t = "throw" THEN formattedRawEmail
  ELSE Ok([command |-> "SendRawEmail", Source |-> recipient, Destinations |-> <<forwardTo>>])

\* Lines 322-387 of the handler module: the request that the task hands to
\* sesClient.send, or what building it throws.
SesRequest(rawEmail, recipients, recipient, forwardTo, digits1, digits2) ==
  IF rawEmail # <<>>
  THEN RawRequest(formatRawForwardedEmail(rawEmail, recipient, forwardTo, digits1, digits2),
                  recipient, forwardTo)
  ELSE Ok([command |-> "SendEmail", Source |-> recipient, Destinations |-> <<forwardTo>>,
           Subject |-> formatForwardedEmail(EmailContentOf(rawEmail, recipients), recipient,
                                            forwardTo).subject])

\* What sesClient.send may do: resolve with a message id, or reject with an
\* Error or with a value that is no Error.
SendOutcomes ==
  { Ok(<<"message-id">>),
    Throw([isError |-> TRUE, message |-> <<"Throttling">>]),
    Throw([isError |-> FALSE, message |-> <<>>]) }

\* sendError instanceof Error ? sendError.message : 'Unknown error'
ErrorMessage(sendError) ==
  IF sendError.isError THEN sendError.message ELSE <<"Unknown", " ", "error">>

\* Lines 308-405 of the handler module up to the first await, for the
\* destination found and the request built for it.
TaskPromise(forwardTo, request, recipient) ==
  IF forwardTo.t = "throw"
  THEN [state |-> "rejected", value |-> forwardTo.v]
  ELSE IF ~Truthy(forwardTo.v)
  THEN [state |-> "fulfilled",
        value |-> [status |-> "skipped", recipient |-> recipient,
                   reason |-> "No forwarding destination found"]]
  ELSE IF request.t = "throw"
  THEN [state |-> "fulfilled",
        value |-> [status |-> "error", recipient |-> recipient, destination |-> forwardTo.v.s,
                   error |-> <<"Unknown", " ", "error">>]]
  ELSE [state |-> "sending", value |-> request.v]

\* Lines 304-406 of the handler module up to the first await: the promise of
\* the task of one recipient after its synchronous part.
StartedPromise(rawEmail, recipients, emailMapping, recipient, digits1, digits2) ==
  TaskPromise(FindDestination(recipient, emailMapping),
              SesRequest(rawEmail, recipients, recipient,
                         FindDestination(recipient, emailMapping).v.s, digits1, digits2),
              recipient)

\* extractHeaderValue (lines 186-190 of the handler module): the trimmed rest
\* of the first line of the object, body included, that starts with the
\* name and a colon, in any case; '' without one.  The pattern is built in
\* a template literal, where \s is the letter s: letters s after the colon
\* are left out, white space is trimmed.
RECURSIVE extractHeaderValue(_, _)
extractHeaderValue(rawEmail, headerName) ==
  IF rawEmail = <<>> THEN <<>>
  ELSE IF Head(rawEmail).k = "hdr" /\ LowerTok(Head(rawEmail).n) = LowerTok(headerName)
  THEN LET rest == <<" ">> \o Head(rawEmail).v
           letters == {i \in 0..Len(rest) : \A j \in 1..i : rest[j] \in {"s", "S"}}
           skipped == CHOOSE i \in letters : \A j \in letters : j <= i
       IN Trim(SubSeq(rest, skipped + 1, Len(rest)))
  ELSE extractHeaderValue(Tail(rawEmail), headerName)

\* addr.match(/<([^>]+)>/) || addr.match(/([^\s,]+@[^\s,]+)/) (line 205 of
\* the handler module), trimmed: the text between the first '<' that has
\* text behind it and the next '>', else the first run without white space
\* that has an '@' inside; <<>> when neither is found.
AddressIn(addr) ==
  LET opens == {i \in 1..Len(addr) : /\ addr[i] = "<"
                                     /\ i < Len(addr) /\ addr[i + 1] # ">"
                                     /\ \E j \in (i + 2)..Len(addr) : addr[j] = ">"}
      open == CHOOSE i \in opens : \A j \in opens : i <= j
      closes == {j \in (open + 2)..Len(addr) : addr[j] = ">"}
      close == CHOOSE j \in closes : \A k \in closes : j <= k
      runs == {r \in (1..Len(addr)) \X (1..Len(addr)) :
                 /\ r[1] <= r[2]
                 /\ \A i \in r[1]..r[2] : ~IsSpace(addr[i])
                 /\ r[1] = 1 \/ IsSpace(addr[r[1] - 1])
                 /\ r[2] = Len(addr) \/ IsSpace(addr[r[2] + 1])
                 /\ \E i \in (r[1] + 1)..(r[2] - 1) : addr[i] = "@"}
      run == CHOOSE r \in runs : \A q \in runs : r[1] <= q[1]
  IN IF opens # {} THEN Trim(SubSeq(addr, open + 1, close - 1))
     ELSE IF runs # {} THEN SubSeq(addr, run[1], run[2])
     ELSE <<>>

RECURSIVE AddressesIn(_)
\* The forEach of lines 203-209 of the handler module over the pieces
\* between the commas.
AddressesIn(headerAddresses) ==
  IF headerAddresses = <<>> THEN <<>>
  ELSE (IF AddressIn(Head(headerAddresses)) # <<>>
        THEN <<AddressIn(Head(headerAddresses))>> ELSE <<>>)
       \o AddressesIn(Tail(headerAddresses))

\* extractEmailAddresses (lines 198-211 of the handler module)
extractEmailAddresses(headerValue) ==
  IF headerValue = <<>> THEN <<>> ELSE AddressesIn(Split(headerValue, ","))

\* Lines 214-239 of the handler module: the addresses of To and of Cc, and
\* without any the second part of the key when it holds an '@'.
ExtractedRecipients(rawEmail, key) ==
  LET extractedRecipients == extractEmailAddresses(extractHeaderValue(rawEmail, "To"))
                             \o extractEmailAddresses(extractHeaderValue(rawEmail, "Cc"))
      keyParts == Split(key, "/")
  IN IF extractedRecipients # <<>> THEN extractedRecipients
     ELSE IF Len(keyParts) >= 2 /\ Includes(keyParts[2], "@") THEN <<keyParts[2]>>
     ELSE <<>>

\* The recipients of the run: they may repeat.
HandlerRecipients == { Info, Hint, <<"invalid">> }

\* A recipient as a header names it: the address alone, or a name and the
\* address in angle brackets.
Written(recipient) ==
  IF Includes(recipient, "@") THEN recipient
  ELSE <<"Nobody", " ", "<">> \o recipient \o <<">">>

\* The value of a To or Cc header that names the recipients.
AddressList(recipients) ==
  Join([i \in 1..Len(recipients) |-> Written(recipients[i])], ",")

\* A message from Alice that names the first recipients in To and the
\* others in Cc; a header without a recipient is left out.
MessageTo(to, cc) ==
  <<Hdr("From", Alice)>>
  \o (IF to # <<>> THEN <<Hdr("To", AddressList(to))>> ELSE <<>>)
  \o (IF cc # <<>> THEN <<Hdr("Cc", AddressList(cc))>> ELSE <<>>)
  \o <<Blank, Text(<<"Hello">>)>>

\* The objects of the run: the empty object, and the messages to at most
\* MaxRecipients recipients, the last of them in To or in Cc.
HandlerMessages ==
  {<<>>} \cup
  { MessageTo(SubSeq(r, 1, k), SubSeq(r, k + 1, Len(r))) :
      <<r, k>> \in { rk \in (UNION { [1..n -> HandlerRecipients] : n \in 0..MaxRecipients })
                             \X (0..MaxRecipients) :
                       rk[2] <= Len(rk[1]) /\ rk[2] >= Len(rk[1]) - 1 } }

\* The keys of the run: without a second part, with one that is no address,
\* with one that is an address.
HandlerKeys ==
  { <<"id">>, <<"incoming", "/", "id">>, <<"incoming", "/">> \o Info \o <<"/", "id">> }

\* The mappings of the run: null, empty, one address, a catch-all.
HandlerMappings ==
  { Null, <<>>, [k \in {Info} |-> Str(Dest)], [k \in {<<"*">>} |-> Arr(<<Dest, Bob>>)] }

\* The handler has loaded the mapping and the object and has extracted the
\* recipients (lines 140-239 of the handler module).
InitHandler ==
  /\ pc = "map"
  /\ fn = "handler"
  /\ args \in { a \in [rawEmail : HandlerMessages, key : HandlerKeys,
                       recipients : UNION { [1..n -> HandlerRecipients] : n \in 0..MaxRecipients },
                       emailMapping : HandlerMappings] :
                  a.recipients = ExtractedRecipients(a.rawEmail, a.key) }
  /\ ret = [forwardingPromises |-> <<>>, returned |-> Undefined]

\* Lines 295-299 of the handler module: without a recipient the handler
\* returns the empty list and starts no task.
SkipForwarding ==
  /\ pc = "map"
  /\ fn = "handler"
  /\ args.recipients = <<>>
  /\ ret' = [ret EXCEPT !.returned = Ok(<<>>)]
  /\ pc' = "done"
  /\ UNCHANGED <<fn, args>>

\* recipients.map(async ...) (line 304): the task of the next recipient runs
\* up to its first await.
StartTask ==
  /\ pc = "map"
  /\ fn = "handler"
  /\ args.recipients # <<>>
  /\ \E digits1 \in RandomSuffixes, digits2 \in RandomSuffixes :
       ret' = [ret EXCEPT !.forwardingPromises =
                 Append(@, StartedPromise(args.rawEmail, args.recipients, args.emailMapping,
                                          args.recipients[Len(@) + 1], digits1, digits2))]
  /\ pc' = IF Len(ret.forwardingPromises) + 1 = Len(args.recipients) THEN "await" ELSE "map"
  /\ UNCHANGED <<fn, args>>

\* A mutated task that has no catch around the send: a send that fails
\* rejects the promise of the task, and the handler awaits the promises with
\* Promise.all and throws.
SendSettles_Rethrow(i) ==
  /\ fn = "handler"
  /\ pc = "await"
  /\ i \in 1..Len(ret.forwardingPromises)
  /\ ret.forwardingPromises[i].state = "sending"
  /\ \E outcome \in SendOutcomes :
       IF outcome.t = "ok"
       THEN /\ ret' = [ret EXCEPT !.forwardingPromises[i] =
                         [state |-> "fulfilled",
                          value |-> [status |-> "success", recipient |-> @.value.Source,
                                     destination |-> @.value.Destinations[1],
                                     messageId |-> outcome.v]]]
            /\ pc' = pc
       ELSE /\ ret' = [ret EXCEPT !.returned = Throw(ErrorMessage(outcome.v))]
            /\ pc' = "done"
  /\ UNCHANGED <<fn, args>>

\* Lines 341-405 of the handler module: the send of task i settles, in any
\* order among the tasks that wait, and the task returns its result.  No
\* send settles before recipients.map has started every task.
SendSettles(i) ==
  /\ fn = "handler"
  /\ pc = "await"
  /\ i \in 1..Len(ret.forwardingPromises)
  /\ ret.forwardingPromises[i].state = "sending"
  /\ \E outcome \in SendOutcomes :
       ret' = [ret EXCEPT !.forwardingPromises[i] =
                 [state |-> "fulfilled",
                  value |-> IF outcome.t = "ok"
                            THEN [status |-> "success", recipient |-> @.value.Source,
                                  destination |-> @.value.Destinations[1],
                                  messageId |-> outcome.v]
                            ELSE [status |-> "error", recipient |-> @.value.Source,
                                  destination |-> @.value.Destinations[1],
                                  error |-> ErrorMessage(outcome.v)]]]
  /\ UNCHANGED <<pc, fn, args>>

\* Lines 409-425 of the handler module: Promise.allSettled has every outcome
\* and the handler returns processedResults.
ReturnResults ==
  /\ fn = "handler"
  /\ pc = "await"
  /\ \A i \in 1..Len(ret.forwardingPromises) :
       ret.forwardingPromises[i].state \in {"fulfilled", "rejected"}
  /\ ret' = [ret EXCEPT !.returned =
               Ok([i \in 1..Len(ret.forwardingPromises) |->
                     IF ret.forwardingPromises[i].state = "fulfilled"
                     THEN ret.forwardingPromises[i].value
                     ELSE [status |-> "rejected", reason |-> ret.forwardingPromises[i].value]])]
  /\ pc' = "done"
  /\ UNCHANGED <<fn, args>>

NextHandler ==
  \/ SkipForwarding
  \/ StartTask
  \/ \E i \in 1..MaxRecipients : SendSettles(i)
  \/ ReturnResults

SpecHandler == InitHandler /\ [][NextHandler]_vars

\* ------------------------------------------------------ claims on the handler

\* The handler has returned or thrown.
HandlerDone == fn = "handler" /\ pc = "done"

\* C17 as stated: the handler does not throw, and it returns one result
\* for each recipient, in the order of the recipients, each 'success',
\* 'skipped' or 'error'.
C17_ThreeStatuses ==
  HandlerDone =>
    /\ ret.returned.t = "ok"
    /\ Len(ret.returned.v) = Len(args.recipients)
    /\ \A i \in 1..Len(args.recipients) :
         ret.returned.v[i].status \in {"success", "skipped", "error"}

\* The result at position i tells, for recipient i alone, what became of
\* its own task.
OwnResult(i) ==
  LET result == ret.returned.v[i]
      recipient == args.recipients[i]
      forwardTo == FindDestination(recipient, args.emailMapping)
  IN IF forwardTo.t = "throw" THEN result.status = "rejected"
     ELSE IF ~Truthy(forwardTo.v) THEN result.status = "skipped" /\ result.recipient = recipient
     ELSE /\ result.status \in {"success", "error"}
          /\ result.recipient = recipient
          /\ result.destination = forwardTo.v.s
          /\ ret.forwardingPromises[i].value = result

\* C17, amended: a send that fails does not stop or fail the task of another
\* recipient and does not make the handler throw.  The handler returns one
\* result for each recipient, in the order of the recipients; the result
\* is 'rejected' when the lookup of the destination throws, else 'skipped'
\* when the recipient has no destination, else 'success' or 'error' as its
\* own send went; and a step of one task leaves the promise of every other
\* task as it was.
C17_OwnResultPerRecipient ==
  /\ [](HandlerDone =>
          /\ ret.returned.t = "ok"
          /\ Len(ret.returned.v) = Len(args.recipients)
          /\ \A i \in 1..Len(args.recipients) : OwnResult(i))
  /\ [][fn = "handler" =>
          \A i \in 1..Len(ret.forwardingPromises) :
            \/ ret'.forwardingPromises[i] = ret.forwardingPromises[i]
            \/ /\ ret.forwardingPromises[i].state = "sending"
               /\ \A j \in 1..Len(ret.forwardingPromises) :
                    j # i => ret'.forwardingPromises[j] = ret.forwardingPromises[j]]_vars

\* The handler has returned for two recipients of which the first one's
\* send failed and the second one's succeeded.
C17_Witness ==
  /\ HandlerDone
  /\ Len(args.recipients) = 2
  /\ ret.returned.t = "ok"
  /\ ret.returned.v[1].status = "error"
  /\ ret.returned.v[2].status = "success"

\* What the task of recipient i has come to tells of a send only when the
\* recipient has a destination: a request that is out names the recipient
\* as its source and the destination as its only destination, a result
\* 'success' or 'error' names both, and a recipient whose lookup returns
\* undefined has the result 'skipped'.
SendOnlyAsMapped(i) ==
  LET promise == ret.forwardingPromises[i]
      recipient == args.recipients[i]
      forwardTo == FindDestination(recipient, args.emailMapping)
  IN /\ promise.state = "sending" =>
          /\ forwardTo.t = "ok" /\ Truthy(forwardTo.v)
          /\ promise.value.Source = recipient
          /\ promise.value.Destinations = <<forwardTo.v.s>>
     /\ (promise.state = "fulfilled" /\ promise.value.status \in {"success", "error"}) =>
          /\ forwardTo.t = "ok" /\ Truthy(forwardTo.v)
          /\ promise.value.recipient = recipient
          /\ promise.value.destination = forwardTo.v.s
     /\ (forwardTo.t = "ok" /\ forwardTo.v = Undefined) =>
          /\ promise.state = "fulfilled"
          /\ promise.value.status = "skipped"
          /\ promise.value.recipient = recipient

\* C30: the handler never sends for a recipient without a destination and
\* never sends without a recipient: when neither To and Cc nor the key name
\* a recipient no task is ever started and the handler returns the empty
\* list; a recipient for which the lookup returns undefined gets the result
\* 'skipped'; and every send has its recipient as source and the mapped
\* destination as its only destination.
C30_NoSendWithoutDestination ==
  fn = "handler" =>
    /\ \A i \in 1..Len(ret.forwardingPromises) : SendOnlyAsMapped(i)
    /\ ExtractedRecipients(args.rawEmail, args.key) = <<>> =>
         /\ ret.forwardingPromises = <<>>
         /\ pc = "done" => ret.returned = Ok(<<>>)
    /\ (pc = "done" /\ ret.returned.t = "ok") =>
         \A i \in 1..Len(ret.returned.v) :
           FindDestination(args.recipients[i], args.emailMapping) = Ok(Undefined) =>
             ret.returned.v[i].status = "skipped"

\* Of two recipients that To and Cc name, the send for the first one is out
\* with the recipient as source and its destination, and the second one,
\* without a destination, is skipped.
C30_Witness ==
  /\ fn = "handler"
  /\ pc = "await"
  /\ args.rawEmail = MessageTo(<<Info>>, <<Hint>>)
  /\ Len(ret.forwardingPromises) = 2
  /\ ret.forwardingPromises[1].state = "sending"
  /\ ret.forwardingPromises[1].value.Source = Info
  /\ ret.forwardingPromises[1].value.Destinations = <<Dest>>
  /\ ret.forwardingPromises[2].state = "fulfilled"
  /\ ret.forwardingPromises[2].value.status = "skipped"

====
